---- MODULE Spec2Model ----
(***************************************************************************)
(* Model of myia/optimize/graph.py: the edge-labelled IR graph, the        *)
(* Operation install protocol, the pattern rewriting engine, CSE/merge,    *)
(* pruning, the Universe (acquire / aggressively_optimize / export).       *)
(***************************************************************************)
EXTENDS Integers, Sequences, FiniteSets, TLC

VARIABLES
    attr,       \* node table: node id (index) -> [cls, values, tagk]
    lams,       \* IRLambda id -> [inputs, output, graph]
    anf_lbdas,  \* Universe.anf_lbdas: ANF object -> IRLambda id
    pool,       \* the ANF objects known to the resolver (fixed by Init)
    pc,         \* position of the caller / driver
    last,       \* record of the last operation (history, for the claims)
    steps       \* number of operations performed so far

vars == <<attr, lams, anf_lbdas, pool, pc, last, steps>>

----------------------------------------------------------------------------
(* Bounds                                                                  *)

MaxInstalls == 2
MaxArgs == 2

----------------------------------------------------------------------------
(* Generic helpers                                                         *)

Range(s) == {s[i] : i \in 1..Len(s)}

InSeq(s, x) == \E i \in 1..Len(s) : s[i] = x

MaxOf(S) == CHOOSE x \in S : \A y \in S : y <= x

MinOf(S) == CHOOSE x \in S : \A y \in S : x <= y

SeqsUpTo(S, n) == UNION {[1..k -> S] : k \in 0..n}

\* b, with a evaluated first: the value is b, only the order of evaluation
\* is fixed (a loop over a long list is split in halves, and the first half
\* is evaluated before the second starts)
Then(a, b) == IF a = a THEN b ELSE b

\* F(e): e is given a name in F, as a local variable of the source is
Let(e, F(_)) == F(e)

----------------------------------------------------------------------------
(* Edge labels (graph.py 28-94)                                            *)

FN == <<"FN", 0>>
CL == <<"CL", 0>>
COPY == <<"COPY", 0>>
IN_(i) == <<"IN", i>>
ELEM(i) == <<"ELEM", i>>
GET(i) == <<"GET", i>>

----------------------------------------------------------------------------
(* Values carried by constant nodes                                        *)

SymV(name) == [t |-> "sym", n |-> 0, s |-> name]
IntV(i) == [t |-> "int", n |-> i, s |-> ""]
FloatV(i) == [t |-> "float", n |-> i, s |-> ""]
LbdaV(key) == [t |-> "lbda", n |-> key, s |-> ""]

----------------------------------------------------------------------------
(* Nodes (graph.py 247-301).  A node is its index in attr.                 *)

(* ANF operands (stx Symbol / ValueNode): a Symbol has a namespace and a    *)
(* name, a ValueNode wraps a value.                                        *)
Sym(name) == [k |-> "sym", ns |-> "local", name |-> name, v |-> IntV(0)]
Builtin(name) == [k |-> "sym", ns |-> "builtin", name |-> name, v |-> IntV(0)]
Global(name) == [k |-> "sym", ns |-> "global", name |-> name, v |-> IntV(0)]
OptSym(name) == [k |-> "sym", ns |-> "global::optimized", name |-> name,
                 v |-> IntV(0)]
ValueNode(v) == [k |-> "val", ns |-> "", name |-> "", v |-> v]
\* a tag that is a bare Python value (IRValue of a number)
RawTag(v) == [k |-> "raw", ns |-> "", name |-> "", v |-> v]

\* symbols.is_global
is_global(sym) ==
    sym.ns = "builtin" \/ sym.ns \in {"global", "global::optimized"}

is_builtin(sym) == sym.ns = "builtin"

IRNode(cls, values, tag) == [cls |-> cls, values |-> values, tag |-> tag]

\* IRValue(value): values = [value]; the tag is the value itself
IRValue(v) ==
    IRNode("IRValue", <<v>>, IF v.t = "sym" THEN Builtin(v.s) ELSE RawTag(v))

\* allocation of a new node object
NewNode(W, rec) == [W EXCEPT !.attr = Append(W.attr, rec)]

Newest(W) == Len(W.attr)

has_value(W, n) == Len(W.attr[n].values) = 1

value(W, n) == W.attr[n].values[1]

----------------------------------------------------------------------------
(* IRGraph (graph.py 182-244): a networkx MultiDiGraph.  nodes is the      *)
(* insertion-ordered node list; edges lists the keyed edges so that the    *)
(* edges of one source appear in adjacency order (grouped by neighbour).   *)

EmptyGraph == [nodes |-> <<>>, edges |-> <<>>]

has_node(g, n) == InSeq(g.nodes, n)

add_node(g, n) == IF has_node(g, n) THEN g
                  ELSE [g EXCEPT !.nodes = Append(@, n)]

add_edge(g, u, v, k) ==
    Let(add_node(add_node(g, u), v), LAMBDA g1 :
        Let(g1.edges, LAMBDA E :
        Let({i \in 1..Len(E) : E[i][1] = u /\ E[i][2] = v}, LAMBDA same :
        IF InSeq(E, <<u, v, k>>) THEN g1
        ELSE IF same = {} THEN [g1 EXCEPT !.edges = Append(E, <<u, v, k>>)]
        ELSE Let(MaxOf(same), LAMBDA j :
                [g1 EXCEPT !.edges = SubSeq(E, 1, j) \o <<<<u, v, k>>>>
                                        \o SubSeq(E, j + 1, Len(E))]))))

remove_edge(g, u, v, k) ==
    [g EXCEPT !.edges = SelectSeq(@, LAMBDA e : e # <<u, v, k>>)]

\* g.edges(node, keys=True)
out_edges(g, n) == SelectSeq(g.edges, LAMBDA e : e[1] = n)

\* g.in_edges(node, keys=True)
in_edges(g, n) == SelectSeq(g.edges, LAMBDA e : e[2] = n)

EdgeSet(g) == Range(g.edges)

NodeSet(g) == Range(g.nodes)

remove_nodes_from(g, S) ==
    [nodes |-> SelectSeq(g.nodes, LAMBDA n : n \notin S),
     edges |-> SelectSeq(g.edges, LAMBDA e : e[1] \notin S /\ e[2] \notin S)]

\* variant that leaves the previous edges in place
clear_out_keep(g, node) == g

clear_out(g, node) ==
    IF ~has_node(g, node) THEN g
    ELSE [g EXCEPT !.edges = SelectSeq(@, LAMBDA e : e[1] # node)]

----------------------------------------------------------------------------
(* Operations (graph.py 102-174).  Every Operation is an ApplyOperation;   *)
(* Closure, Tuple, Get and Copy build one over a new IRValue node.         *)

ApplyOperation(fn, args) == [fn |-> fn, args |-> args]

RECURSIVE add_in_edges(_, _, _, _)
add_in_edges(g, node, args, i) ==
    IF i > Len(args) THEN g
    ELSE add_in_edges(add_edge(g, node, args[i], IN_(i - 1)), node, args, i + 1)

\* variant that installs on the node as if it were a new one, without the
\* edges that pointed at it
install_detached(g, node, op) ==
    add_in_edges(add_edge(remove_nodes_from(g, {node}), node, op.fn, FN),
                 node, op.args, 1)

\* ApplyOperation.install
install(g, node, op) ==
    add_in_edges(add_edge(clear_out(g, node), node, op.fn, FN),
                 node, op.args, 1)

\* the four constructors return the world with the new IRValue and the op
ClosureOperation(W, fn, args) ==
    Let(NewNode(W, IRValue(SymV("partial"))), LAMBDA W1 :
       [W |-> W1, op |-> ApplyOperation(Newest(W1), <<fn>> \o args)])

TupleOperation(W, values) ==
    Let(NewNode(W, IRValue(SymV("mktuple"))), LAMBDA W1 :
       [W |-> W1, op |-> ApplyOperation(Newest(W1), values)])

GetOperation(W, arg, index) ==
    Let(NewNode(W, IRValue(SymV("index"))), LAMBDA W1 :
        Let(NewNode(W1, IRValue(IntV(index))), LAMBDA W2 :
       [W |-> W2, op |-> ApplyOperation(Newest(W1), <<arg, Newest(W2)>>)]))

CopyOperation(W, arg) ==
    Let(NewNode(W, IRValue(SymV("identity"))), LAMBDA W1 :
       [W |-> W1, op |-> ApplyOperation(Newest(W1), <<arg>>)])

\* install of an operation on a node of Lambda l
InstallIn(W, l, node, op) ==
    [W EXCEPT !.lams[l].graph = install(@, node, op)]

----------------------------------------------------------------------------
(* The world threaded through the operations                               *)

\* depth counts the nested _graph_transform calls on the Python stack
World ==
    [attr |-> attr, lams |-> lams, anf |-> anf_lbdas, err |-> "", depth |-> 0]

Raise(W, msg) == [W EXCEPT !.err = msg]

SetWorld(W) ==
    /\ attr' = W.attr
    /\ lams' = W.lams
    /\ anf_lbdas' = W.anf

IRLambda(inputs, output, src) ==
    [inputs |-> inputs, output |-> output, graph |-> EmptyGraph, src |-> src]

----------------------------------------------------------------------------
(* Specification SpecInstall: arbitrary Operation.install calls on the     *)
(* nodes of one IRGraph.                                                   *)

\* an IRLambda (node 1) with two inputs, three computations and a constant
InstallAttr ==
    <<IRNode("IRLambda", <<LbdaV(1)>>, OptSym("f")),
      IRNode("IRInput", <<>>, Sym("x")),
      IRNode("IRComputation", <<>>, Sym("a")),
      IRNode("IRComputation", <<>>, Sym("b")),
      IRNode("IRComputation", <<SymV("add")>>, Builtin("add"))>>

\* nodes that get an operation installed, and the nodes used as operands
InstallTargets == {3, 4}
InstallOperands == {2, 3}
InstallFns == {2, 5}

InitInstall ==
    /\ attr = InstallAttr
    /\ lams = (1 :> IRLambda(<<2>>, 4, 1))
    /\ anf_lbdas = <<>>
    /\ pool = <<>>
    /\ pc = "install"
    /\ last = [op |-> "none", ops |-> <<>>]
    /\ steps = 0

\* the installed operation is remembered per node (node.operation)
Installed(node, R) ==
    /\ steps < MaxInstalls
    /\ SetWorld(InstallIn(R.W, 1, node, R.op))
    /\ last' = [op |-> "install",
                ops |-> IF node \in DOMAIN last.ops
                        THEN [last.ops EXCEPT ![node] = R.op]
                        ELSE last.ops @@ (node :> R.op)]
    /\ steps' = steps + 1
    /\ UNCHANGED <<pool, pc>>

InstallApply ==
    \E node \in InstallTargets, fn \in InstallFns,
       args \in SeqsUpTo(InstallOperands, MaxArgs) :
        Installed(node, [W |-> World, op |-> ApplyOperation(fn, args)])

InstallClosure ==
    \E node \in InstallTargets, fn \in InstallFns,
       args \in SeqsUpTo(InstallOperands, 1) :
        Installed(node, ClosureOperation(World, fn, args))

InstallTuple ==
    \E node \in InstallTargets, values \in SeqsUpTo(InstallOperands, MaxArgs) :
        Installed(node, TupleOperation(World, values))

InstallGet ==
    \E node \in InstallTargets, arg \in InstallOperands, index \in 0..1 :
        Installed(node, GetOperation(World, arg, index))

InstallCopy ==
    \E node \in InstallTargets, arg \in InstallOperands :
        Installed(node, CopyOperation(World, arg))

NextInstall ==
    \/ InstallApply
    \/ InstallClosure
    \/ InstallTuple
    \/ InstallGet
    \/ InstallCopy

SpecInstall == InitInstall /\ [][NextInstall]_vars

\* the edges an operation puts on a node
OpEdges(node, op) ==
    {<<node, op.fn, FN>>}
        \cup {<<node, op.args[i], IN_(i - 1)>> : i \in 1..Len(op.args)}

OutEdgeSet(g, n) == {e \in EdgeSet(g) : e[1] = n}

\* C1: after any sequence of install calls every node's outgoing edges are
\* exactly those of the last operation installed on it (one FN edge plus
\* IN(0)..IN(n-1), one target per role), or it has none; no edge of an
\* earlier operation remains.
C1_ProducerUniqueness ==
    pc = "install" =>
        \A n \in 1..Len(attr) :
            /\ OutEdgeSet(lams[1].graph, n) =
                   IF n \in DOMAIN last.ops THEN OpEdges(n, last.ops[n])
                   ELSE {}
            /\ \A e1, e2 \in OutEdgeSet(lams[1].graph, n) :
                   e1[3] = e2[3] => e1 = e2

\* a node was installed twice with operations of different edge sets
C1_Witness ==
    /\ pc = "install"
    /\ steps = MaxInstalls
    /\ \E n \in DOMAIN last.ops :
          /\ Len(last.ops[n].args) = 1
          /\ Cardinality(OutEdgeSet(lams[1].graph, n)) = 2
          /\ Cardinality(DOMAIN last.ops) < MaxInstalls

----------------------------------------------------------------------------
(* ANF functions (LambdaNode): ref, args, a LetNode of bindings and a body.*)
(* A binding is [lhs, rhs]; lhs is a Symbol or a TupleNode of Symbols; rhs *)
(* is an ApplyNode, a ClosureNode, a TupleNode, or a Symbol/ValueNode.     *)

LhsSym(name) == [k |-> "sym", names |-> <<name>>]
LhsTuple(names) == [k |-> "tup", names |-> names]

NoFn == ValueNode(IntV(0))
ApplyNode(fn, args) == [k |-> "apply", fn |-> fn, args |-> args]
ClosureNode(fn, args) == [k |-> "closure", fn |-> fn, args |-> args]
TupleNode(args) == [k |-> "tuple", fn |-> NoFn, args |-> args]
RefNode(x) == [k |-> "ref", fn |-> NoFn, args |-> <<x>>]
IllegalNode == [k |-> "illegal", fn |-> NoFn, args |-> <<>>]

Binding(lhs, rhs) == [lhs |-> lhs, rhs |-> rhs]

LambdaNode(ref, args, bindings, body) ==
    [ref |-> ref, args |-> args, bindings |-> bindings, body |-> body]

\* key of a Symbol in the per-build association
SymKey(x) == x.ns \o ":" \o x.name

\* the resolver: a global symbol names the ANF object with that ref
Resolvable(name) == \E key \in DOMAIN pool : pool[key].ref = name

Resolve(name) == CHOOSE key \in DOMAIN pool : pool[key].ref = name

----------------------------------------------------------------------------
(* Universe.acquire and Universe._graph_transform (graph.py 662-760)       *)

\* nested imports the Python stack holds before RecursionError
MaxImportDepth == 4

RECURSIVE acquire(_, _)
RECURSIVE _graph_transform(_, _)
RECURSIVE wrap(_, _, _, _)
RECURSIVE wrap_list(_, _, _, _, _, _)
RECURSIVE assign(_, _, _, _, _, _, _)
RECURSIVE assign_gets(_, _, _, _, _, _)
RECURSIVE assign_bindings(_, _, _, _, _)

\* wrap(x, cls): result [W, A, n] with A the association assoc
wrap(W, A, x, cls) ==
    IF W.err # "" THEN [W |-> W, A |-> A, n |-> 0]
    ELSE IF x.k = "sym" /\ SymKey(x) \in DOMAIN A
    THEN [W |-> W, A |-> A, n |-> A[SymKey(x)]]
    ELSE IF x.k = "val"
    THEN Let(NewNode(W, IRNode(cls, <<x.v>>, x)), LAMBDA W1 :
            [W |-> W1, A |-> A, n |-> Newest(W1)])
    ELSE IF is_global(x) /\ ~is_builtin(x)
    THEN IF ~Resolvable(x.name)
         THEN [W |-> Raise(W, "Myia cannot resolve"), A |-> A, n |-> 0]
         ELSE Let(acquire(W, Resolve(x.name)), LAMBDA R :
                 [W |-> R.W, A |-> A @@ (SymKey(x) :> R.l), n |-> R.l])
    ELSE Let(IF is_builtin(x) THEN <<SymV(x.name)>> ELSE <<>>, LAMBDA values :
             Let(NewNode(W, IRNode(cls, values, x)), LAMBDA W1 :
            [W |-> W1, A |-> A @@ (SymKey(x) :> Newest(W1)),
             n |-> Newest(W1)]))

\* [wrap(a) for a in xs]: result [W, A, ns]
wrap_list(W, A, xs, cls, i, acc) ==
    IF i > Len(xs) THEN [W |-> W, A |-> A, ns |-> acc]
    ELSE Let(wrap(W, A, xs[i], cls), LAMBDA R :
            wrap_list(R.W, R.A, xs, cls, i + 1, Append(acc, R.n)))

LinkIn(W, l, dest, source, role) ==
    [W EXCEPT !.lams[l].graph = add_edge(@, dest, source, role)]

\* assign(k, v, rel) for a Symbol k; rel is <<>> (None) or <<role>>;
\* v is an rhs node when rel is None, an operand otherwise
assign(W, A, l, k, v, rel, tmpname) ==
    IF W.err # "" THEN [W |-> W, A |-> A]
    ELSE IF k.k = "tup"
    THEN Let(Sym(tmpname), LAMBDA tmp :
             Let(assign(W, A, l, LhsSym(tmpname), v, rel, tmpname), LAMBDA R :
            assign_gets(R.W, R.A, l, k.names, tmp, 1)))
    ELSE
    Let(wrap(W, A, Sym(k.names[1]), "IRComputation"), LAMBDA Rk :
        IF Rk.W.err # "" THEN [W |-> Rk.W, A |-> Rk.A]
        ELSE IF rel # <<>>
        THEN Let(wrap(Rk.W, Rk.A, v, "IRComputation"), LAMBDA Rv :
                IF Rv.W.err # "" THEN [W |-> Rv.W, A |-> Rv.A]
                ELSE [W |-> LinkIn(Rv.W, l, Rk.n, Rv.n, rel[1]), A |-> Rv.A])
        ELSE IF v.k = "apply"
        THEN Let(wrap_list(Rk.W, Rk.A, v.args, "IRComputation", 1, <<>>), LAMBDA Ra :
                 Let(wrap(Ra.W, Ra.A, v.fn, "IRComputation"), LAMBDA Rf :
                IF Rf.W.err # "" THEN [W |-> Rf.W, A |-> Rf.A]
                ELSE [W |-> InstallIn(Rf.W, l, Rk.n,
                                      ApplyOperation(Rf.n, Ra.ns)),
                      A |-> Rf.A]))
        ELSE IF v.k = "ref"
        THEN Let(wrap(Rk.W, Rk.A, v.args[1], "IRComputation"), LAMBDA Rv :
                 Let(CopyOperation(Rv.W, Rv.n), LAMBDA O :
                IF Rv.W.err # "" THEN [W |-> Rv.W, A |-> Rv.A]
                ELSE [W |-> InstallIn(O.W, l, Rk.n, O.op), A |-> Rv.A]))
        ELSE IF v.k = "closure"
        THEN Let(wrap_list(Rk.W, Rk.A, v.args, "IRComputation", 1, <<>>), LAMBDA Ra :
                 Let(wrap(Ra.W, Ra.A, v.fn, "IRComputation"), LAMBDA Rf :
                 Let(ClosureOperation(Rf.W, Rf.n, Ra.ns), LAMBDA O :
                IF Rf.W.err # "" THEN [W |-> Rf.W, A |-> Rf.A]
                ELSE [W |-> InstallIn(O.W, l, Rk.n, O.op), A |-> Rf.A])))
        ELSE IF v.k = "tuple"
        THEN Let(wrap_list(Rk.W, Rk.A, v.args, "IRComputation", 1, <<>>), LAMBDA Ra :
                 Let(TupleOperation(Ra.W, Ra.ns), LAMBDA O :
                IF Ra.W.err # "" THEN [W |-> Ra.W, A |-> Ra.A]
                ELSE [W |-> InstallIn(O.W, l, Rk.n, O.op), A |-> Ra.A]))
        ELSE [W |-> Raise(Rk.W, "Illegal ANF clause."), A |-> Rk.A])

\* for i, kk in enumerate(k.values): assign(kk, tmp, GET(i))
assign_gets(W, A, l, names, tmp, i) ==
    IF i > Len(names) THEN [W |-> W, A |-> A]
    ELSE Let(assign(W, A, l, LhsSym(names[i]), tmp, <<GET(i - 1)>>, ""), LAMBDA R :
            assign_gets(R.W, R.A, l, names, tmp, i + 1))

\* for k, v in let.bindings: assign(k, v)
assign_bindings(W, A, l, bs, i) ==
    IF i > Len(bs) THEN W
    ELSE Let(     assign(W, A, l, bs[i].lhs, bs[i].rhs, <<>>,
                         "TMP" \o ToString(i)), LAMBDA R :
            assign_bindings(R.W, R.A, l, bs, i + 1))

\* registration of the new IRLambda in the cache, before the bindings
Register(W, key, irl, inputs, output) ==
    [W EXCEPT !.lams = (irl :> IRLambda(inputs, output, key)) @@ @,
              !.anf = (key :> irl) @@ @]

\* the call returns to its caller's stack depth
Return(W1, W) == [W1 EXCEPT !.depth = W.depth]

\* a call nested deeper than the interpreter allows raises RecursionError;
\* the IRLambda is registered after the inputs and the body symbol are
\* wrapped and before the bindings are assigned
_graph_transform(W, key) ==
    IF W.depth >= MaxImportDepth
    THEN [W |-> Raise(W, "RecursionError"), l |-> 0]
    ELSE
    Let(pool[key], LAMBDA lbda :
        Let(  wrap_list([W EXCEPT !.depth = @ + 1], <<>>,
                        [i \in 1..Len(lbda.args) |-> Sym(lbda.args[i])],
                        "IRInput", 1, <<>>), LAMBDA Ri :
        Let(wrap(Ri.W, Ri.A, lbda.body, "IRComputation"), LAMBDA Ro :
        Let(NewNode(Ro.W, IRNode("IRLambda", <<LbdaV(key)>>, OptSym(lbda.ref))), LAMBDA W1 :
        Let(Newest(W1), LAMBDA irl :
        Let(Register(W1, key, irl, Ri.ns, Ro.n), LAMBDA W2 :
        IF Ro.W.err # "" THEN [W |-> Return(Ro.W, W), l |-> 0]
        ELSE [W |-> Return(assign_bindings(W2, Ro.A, irl, lbda.bindings, 1), W),
              l |-> irl]))))))

\* variant that builds a new IRLambda on every call
acquire_rebuild(W, key) ==
    IF W.err # "" THEN [W |-> W, l |-> 0] ELSE _graph_transform(W, key)

acquire(W, key) ==
    IF W.err # "" THEN [W |-> W, l |-> 0]
    ELSE IF key \in DOMAIN W.anf THEN [W |-> W, l |-> W.anf[key]]
    ELSE _graph_transform(W, key)

----------------------------------------------------------------------------
(* IRLambda.prune (graph.py 510-516)                                       *)

Successors(g, S) == {e[2] : e \in {e \in EdgeSet(g) : e[1] \in S}}

RECURSIVE ReachFrom(_, _)
ReachFrom(g, S) ==
    Let(S \cup Successors(g, S), LAMBDA T :
       IF T = S THEN S ELSE ReachFrom(g, T))

\* nx.dfs_preorder_nodes(graph, output), as a set
dfs_preorder_nodes(g, source) == ReachFrom(g, {source})

\* variant that removes nothing
prune_keep_all(W, l) == [W |-> W, ret |-> FALSE]

\* result [W, ret]; dfs_preorder_nodes raises when output is not a node
prune(W, l) ==
    Let(W.lams[l].graph, LAMBDA g :
        Let(W.lams[l].output, LAMBDA out :
        IF ~has_node(g, out)
        THEN [W |-> Raise(W, "KeyError: output not in graph"), ret |-> FALSE]
        ELSE Let(NodeSet(g) \ dfs_preorder_nodes(g, out), LAMBDA to_remove :
                IF to_remove # {}
                THEN [W |-> [W EXCEPT !.lams[l].graph =
                                          remove_nodes_from(@, to_remove)],
                      ret |-> TRUE]
                ELSE [W |-> W, ret |-> FALSE])))

----------------------------------------------------------------------------
(* IRLambda.replace (graph.py 559-565)                                     *)

\* for n, _, k in es[lo..hi]: remove_edge(n, old, k); add_edge(n, new, k)
\* (the loop is split in halves to keep the evaluation shallow)
RECURSIVE redirect(_, _, _, _, _)
redirect(g, es, new, lo, hi) ==
    IF lo > hi THEN g
    ELSE IF lo = hi
    THEN add_edge(remove_edge(g, es[lo][1], es[lo][2], es[lo][3]),
                  es[lo][1], new, es[lo][3])
    ELSE Let((lo + hi) \div 2, LAMBDA mid :
             Let(redirect(g, es, new, lo, mid), LAMBDA g1 :
            Then(g1, redirect(g1, es, new, mid + 1, hi))))

\* variant that redirects only the first incoming edge
replace_first_edge(W, l, old, new) ==
    [W EXCEPT !.lams[l].graph =
                  redirect(@, in_edges(@, old), new, 1,
                           IF in_edges(@, old) = <<>> THEN 0 ELSE 1),
              !.lams[l].output = IF old = @ THEN new ELSE @]

replace(W, l, old, new) ==
    [W EXCEPT !.lams[l].graph =
                  redirect(@, in_edges(@, old), new, 1, Len(in_edges(@, old))),
              !.lams[l].output = IF old = @ THEN new ELSE @]

----------------------------------------------------------------------------
(* IRLambda._is_constant and IRLambda.merge (graph.py 518-539, 567-569)    *)

_is_constant(W, node) ==
    W.attr[node].cls = "IRLambda" \/ Len(W.attr[node].values) = 1

\* Python == on the values of two constant nodes
PyEq(v1, v2) ==
    IF v1.t \in {"int", "float"} /\ v2.t \in {"int", "float"}
    THEN v1.n = v2.n
    ELSE v1 = v2

\* {k: n for _, n, k in edges}: the keys in first-occurrence order, each
\* with its last target
RECURSIVE dict_of(_, _, _)
dict_of(es, i, acc) ==
    IF i > Len(es) THEN acc
    ELSE Let(es[i][3], LAMBDA k :
             Let({j \in 1..Len(acc) : acc[j][1] = k}, LAMBDA hit :
            IF hit = {}
            THEN dict_of(es, i + 1, Append(acc, <<k, es[i][2]>>))
            ELSE dict_of(es, i + 1,
                         [acc EXCEPT ![MinOf(hit)] = <<k, es[i][2]>>])))

DictKeys(d) == {d[i][1] : i \in 1..Len(d)}

DictGet(d, k) == d[CHOOSE i \in 1..Len(d) : d[i][1] = k][2]

RECURSIVE merge(_, _, _, _)
RECURSIVE merge_operands(_, _, _, _, _)

\* for k, n3 in edges1.items(): if not self.merge(n3, edges2[k]): return
\* False.  Result [W, ret]; W.err is set when the call raises.
merge_operands(W, l, edges1, edges2, i) ==
    IF i > Len(edges1) THEN [W |-> W, ret |-> TRUE]
    ELSE Let(merge(W, l, edges1[i][2], DictGet(edges2, edges1[i][1])), LAMBDA R :
            IF R.W.err # "" \/ ~R.ret THEN [W |-> R.W, ret |-> FALSE]
            ELSE merge_operands(R.W, l, edges1, edges2, i + 1))

merge(W, l, n1, n2) ==
    IF n1 = n2 THEN [W |-> W, ret |-> TRUE]
    ELSE IF W.attr[n1].cls # W.attr[n2].cls THEN [W |-> W, ret |-> FALSE]
    ELSE IF W.attr[n1].cls = "IRLambda" THEN [W |-> W, ret |-> FALSE]
    ELSE IF _is_constant(W, n1)
    THEN IF ~has_value(W, n2)
         THEN [W |-> Raise(W, "TypeError: cannot unpack None"), ret |-> FALSE]
         ELSE IF PyEq(value(W, n1), value(W, n2))
         THEN [W |-> replace(W, l, n1, n2), ret |-> TRUE]
         ELSE [W |-> W, ret |-> FALSE]
    ELSE Let(W.lams[l].graph, LAMBDA g :
             Let(dict_of(out_edges(g, n1), 1, <<>>), LAMBDA edges1 :
             Let(dict_of(out_edges(g, n2), 1, <<>>), LAMBDA edges2 :
            IF DictKeys(edges1) # DictKeys(edges2)
            THEN [W |-> W, ret |-> FALSE]
            ELSE Let(merge_operands(W, l, edges1, edges2, 1), LAMBDA R :
                    IF R.W.err # "" \/ ~R.ret THEN R
                    ELSE [W |-> replace(R.W, l, n1, n2), ret |-> TRUE]))))

----------------------------------------------------------------------------
(* Specification SpecGraph: a Lambda is acquired from an ANF function of   *)
(* at most MaxBind bindings, then prune / merge are called on its graph.   *)

MaxBind == 2
MaxOps == 1

BindName(j) == <<"a", "b", "c", "d", "e">>[j]

\* what binding j may refer to: the parameters, two literals, earlier names
GraphOperands(j) ==
    {Sym("x"), Sym("y"), ValueNode(IntV(1)), ValueNode(IntV(2))}
        \cup {Sym(BindName(i)) : i \in 1..(j - 1)}

RECURSIVE GraphBindings(_)
GraphBindings(n) ==
    IF n = 0 THEN {<<>>}
    ELSE {Append(bs, Binding(LhsSym(BindName(n)),
                             ApplyNode(Builtin("add"), <<o1, o2>>))) :
            bs \in GraphBindings(n - 1),
            o1 \in GraphOperands(n), o2 \in GraphOperands(n)}

\* the producer bindings, then one binding that consumes every bound name
ConsumerBinding ==
    Binding(LhsSym("out"),
            TupleNode([i \in 1..MaxBind |-> Sym(BindName(i))]))

GraphPrograms ==
    {LambdaNode("f", <<"x", "y">>, Append(bs, ConsumerBinding), body) :
        bs \in GraphBindings(MaxBind),
        body \in {Sym("out"), Sym(BindName(1))}}

NoLast == [op |-> "none", pre |-> <<>>, a |-> 0, b |-> 0, ret |-> FALSE,
           err |-> ""]

InitGraph ==
    /\ attr = <<>>
    /\ lams = <<>>
    /\ anf_lbdas = <<>>
    /\ pool \in {<<p>> : p \in GraphPrograms}
    /\ pc = "start"
    /\ last = NoLast
    /\ steps = 0

\* the Lambda under test: the one acquired for ANF object 1
Top == anf_lbdas[1]

GAcquire ==
    /\ pc = "start"
    /\ \E R \in {acquire(World, 1)} :
          /\ SetWorld(R.W)
          /\ pc' = IF R.W.err # "" THEN "error" ELSE "ready"
          /\ last' = [NoLast EXCEPT !.op = "acquire", !.err = R.W.err]
    /\ UNCHANGED <<pool, steps>>

GPrune ==
    /\ pc = "ready"
    /\ steps < MaxOps
    /\ \E R \in {prune(World, Top)} :
          /\ SetWorld(R.W)
          /\ pc' = IF R.W.err # "" THEN "error" ELSE "ready"
          /\ last' = [op |-> "prune", pre |-> lams[Top], a |-> 0, b |-> 0,
                      ret |-> R.ret, err |-> R.W.err]
    /\ steps' = steps + 1
    /\ UNCHANGED pool

GMerge ==
    /\ pc = "ready"
    /\ steps < MaxOps
    /\ \E a, b \in NodeSet(lams[Top].graph) :
          \E R \in {merge(World, Top, a, b)} :
             /\ SetWorld(R.W)
             /\ pc' = IF R.W.err # "" THEN "error" ELSE "ready"
             /\ last' = [op |-> "merge", pre |-> lams[Top], a |-> a,
                         b |-> b, ret |-> R.ret, err |-> R.W.err]
    /\ steps' = steps + 1
    /\ UNCHANGED pool

\* lbda.replace(old, new) for a node old of the graph and any node new,
\* which ends the run
GReplace ==
    /\ pc = "ready"
    /\ steps < MaxOps
    /\ \E old \in NodeSet(lams[Top].graph), new \in 1..Len(attr) :
          /\ SetWorld(replace(World, Top, old, new))
          /\ last' = [op |-> "replace", pre |-> lams[Top], a |-> old,
                      b |-> new, ret |-> FALSE, err |-> ""]
    /\ pc' = "replaced"
    /\ steps' = steps + 1
    /\ UNCHANGED pool

NextGraph ==
    \/ GAcquire
    \/ GPrune
    \/ GMerge
    \/ GReplace

SpecGraph == InitGraph /\ [][NextGraph]_vars

\* C2: for a Lambda whose Output is a node of its graph, after prune() the
\* node set is exactly the set of nodes reachable from Output along
\* outgoing edges: every remaining node is reachable and no node that was
\* reachable before the call was removed.
C2_PruneReachability ==
    (last.op = "prune" /\ has_node(last.pre.graph, last.pre.output)) =>
        /\ last.err = ""
        /\ NodeSet(lams[Top].graph) =
               ReachFrom(last.pre.graph, {last.pre.output})
        /\ NodeSet(lams[Top].graph) =
               ReachFrom(lams[Top].graph, {lams[Top].output})

\* prune removed an unreachable node and kept a reachable computation
C2_Witness ==
    /\ last.op = "prune"
    /\ last.ret
    /\ NodeSet(lams[Top].graph) # NodeSet(last.pre.graph)
    /\ Cardinality(NodeSet(lams[Top].graph)) >= 3

\* C3: for two distinct nodes a and b of one graph, if merge(a, b) returns
\* True then every edge that pointed at a before the call points at b with
\* the same role afterwards, and no edge points at a.
C3_MergeSoundness ==
    (last.op = "merge" /\ last.ret /\ last.err = "" /\ last.a # last.b) =>
        /\ \A e \in EdgeSet(last.pre.graph) :
              e[2] = last.a => <<e[1], last.b, e[3]>> \in EdgeSet(lams[Top].graph)
        /\ \A e \in EdgeSet(lams[Top].graph) : e[2] # last.a

\* a successful merge of two distinct computed nodes, one of them in use
C3_Witness ==
    /\ last.op = "merge"
    /\ last.ret
    /\ last.a # last.b
    /\ ~_is_constant(World, last.a)
    /\ out_edges(last.pre.graph, last.a) # <<>>
    /\ in_edges(last.pre.graph, last.a) # <<>>

\* the edges of the Lambda lb that point at node n
InEdgeSet(lb, n) == {e \in EdgeSet(lb.graph) : e[2] = n}

\* C16: after replace(old, new) with old # new every edge (n, old, role) has
\* become (n, new, role), no edge points at old, Output is new if it was old
\* and is unchanged otherwise, and the outgoing edges of old and the edges
\* that did not point at old are as before.
C16_GraphReplace ==
    (last.op = "replace" /\ last.a # last.b) =>
        /\ \A e \in InEdgeSet(last.pre, last.a) :
              <<e[1], last.b, e[3]>> \in EdgeSet(lams[Top].graph)
        /\ InEdgeSet(lams[Top], last.a) = {}
        /\ lams[Top].output =
               IF last.pre.output = last.a THEN last.b ELSE last.pre.output
        /\ OutEdgeSet(lams[Top].graph, last.a) =
               OutEdgeSet(last.pre.graph, last.a)
        /\ EdgeSet(lams[Top].graph) =
               (EdgeSet(last.pre.graph) \ InEdgeSet(last.pre, last.a))
                   \cup {<<e[1], last.b, e[3]>> :
                            e \in InEdgeSet(last.pre, last.a)}

\* the replaced node had two users and operands of its own, and was not
\* the Output
C16_Witness ==
    /\ last.op = "replace"
    /\ last.a # last.b
    /\ Cardinality({e[1] : e \in InEdgeSet(last.pre, last.a)}) >= 2
    /\ OutEdgeSet(last.pre.graph, last.a) # {}
    /\ last.pre.output # last.a
    /\ InEdgeSet(last.pre, last.b) # {}

\* C28: if merge(a, b) returns False, the edge set of the graph and the
\* Output are the same as before the call, also when some operand pairs of
\* a and b were merged before one could not be.
C28_FailedMergeChangesNothing ==
    (last.op = "merge" /\ ~last.ret /\ last.err = "") =>
        /\ EdgeSet(lams[Top].graph) = EdgeSet(last.pre.graph)
        /\ lams[Top].output = last.pre.output

\* the same for two nodes that differ in class, in value or in their roles
FailedMergeOfUnlikeNodes ==
    (last.op = "merge" /\ ~last.ret /\ last.err = ""
        /\ \/ attr[last.a].cls # attr[last.b].cls
           \/ _is_constant(World, last.a)
           \/ {e[3] : e \in OutEdgeSet(last.pre.graph, last.a)}
                 # {e[3] : e \in OutEdgeSet(last.pre.graph, last.b)}) =>
        lams[Top] = last.pre

----------------------------------------------------------------------------
(* IRGraph.sync / productor (graph.py 196-241)                             *)

\* the last target of an edge of node with the given role family, or 0
LastOf(es, fam) ==
    Let({i \in 1..Len(es) : es[i][3][1] = fam}, LAMBDA hit :
       IF hit = {} THEN 0 ELSE es[MaxOf(hit)][2])

\* inputs / elems: index -> last target with that index
IndexDict(es, fam) ==
    Let({es[i][3][2] : i \in {j \in 1..Len(es) : es[j][3][1] = fam}}, LAMBDA idxs :
       [i \in idxs |->
          es[MaxOf({j \in 1..Len(es) : es[j][3] = <<fam, i>>})][2]])

\* tuple(d[i] for i in range(len(d))) is a KeyError when an index is missing
Contiguous(d) == DOMAIN d = 0..(Cardinality(DOMAIN d) - 1)

DictTuple(d) == [i \in 1..Cardinality(DOMAIN d) |-> d[i - 1]]

NoOp == [kind |-> "none", fn |-> 0, args |-> <<>>]

Op(o) == [kind |-> "apply", fn |-> o.fn, args |-> o.args]

\* result [W, op]: op.kind is "apply" or "none"; W.err is set on a raise
productor(W, l, node) ==
    Let([W EXCEPT !.lams[l].graph = add_node(@, node)], LAMBDA W0 :
        Let(out_edges(W0.lams[l].graph, node), LAMBDA es :
        Let(LastOf(es, "FN"), LAMBDA fn :
        Let(LastOf(es, "CL"), LAMBDA cl :
        Let(LastOf(es, "COPY"), LAMBDA cp :
        Let(IndexDict(es, "IN"), LAMBDA inputs :
        Let(IndexDict(es, "ELEM"), LAMBDA elems :
        Let({i \in 1..Len(es) : es[i][3][1] = "GET"}, LAMBDA gets :
        Let(   IF gets = {} THEN <<>>
               ELSE <<es[MaxOf(gets)][2], es[MaxOf(gets)][3][2]>>, LAMBDA idx :
        Let(        (IF fn # 0 THEN {"FN"} ELSE {})
                      \cup (IF cl # 0 THEN {"CL"} ELSE {})
                      \cup (IF DOMAIN elems # {} THEN {"ELEM"} ELSE {})
                      \cup (IF idx # <<>> THEN {"GET"} ELSE {})
                      \cup (IF cp # 0 THEN {"COPY"} ELSE {}), LAMBDA families :
        IF Cardinality(families) > 1
        THEN [W |-> Raise(W0, "Same node cannot be produced in multiple ways."),
              op |-> NoOp]
        ELSE IF fn # 0
        THEN IF ~Contiguous(inputs)
             THEN [W |-> Raise(W0, "KeyError"), op |-> NoOp]
             ELSE [W |-> W0, op |-> Op(ApplyOperation(fn, DictTuple(inputs)))]
        ELSE IF cl # 0
        THEN IF ~Contiguous(inputs)
             THEN [W |-> Raise(W0, "KeyError"), op |-> NoOp]
             ELSE Let(ClosureOperation(W0, cl, DictTuple(inputs)), LAMBDA O :
                     [W |-> O.W, op |-> Op(O.op)])
        ELSE IF DOMAIN elems # {}
        THEN IF ~Contiguous(elems)
             THEN [W |-> Raise(W0, "KeyError"), op |-> NoOp]
             ELSE Let(TupleOperation(W0, DictTuple(elems)), LAMBDA O :
                     [W |-> O.W, op |-> Op(O.op)])
        ELSE IF idx # <<>>
        THEN Let(GetOperation(W0, idx[1], idx[2]), LAMBDA O :
                [W |-> O.W, op |-> Op(O.op)])
        ELSE IF cp # 0
        THEN Let(CopyOperation(W0, cp), LAMBDA O :
                [W |-> O.W, op |-> Op(O.op)])
        ELSE [W |-> W0, op |-> NoOp]))))))))))

----------------------------------------------------------------------------
(* Patterns and PatternOpt._match (graph.py 304-355)                       *)

PLit(v) == [k |-> "lit", name |-> "", c |-> "", v |-> v, sub |-> <<>>]
PSym(name) == PLit(SymV(name))
PVar(name, c) == [k |-> "var", name |-> name, c |-> c, v |-> IntV(0),
                  sub |-> <<>>]
PDots == [k |-> "dots", name |-> "", c |-> "", v |-> IntV(0), sub |-> <<>>]
PTuple(sub) == [k |-> "tup", name |-> "", c |-> "", v |-> IntV(0),
                sub |-> sub]

X == PVar("X", "any")
Y == PVar("Y", "any")
Z == PVar("Z", "any")
V == PVar("V", "value")
V1 == PVar("V1", "value")
V2 == PVar("V2", "value")
L == PVar("L", "lambda")

\* an element of the matched s-expression: a node, or a list of nodes
ENode(n) == [list |-> FALSE, ns |-> <<n>>]
EList(ns) == [list |-> TRUE, ns |-> ns]

\* Python s[a:b]
PySlice(s, a, b) ==
    Let(Len(s), LAMBDA n :
    LET norm(i) == IF i < 0 THEN (IF i + n < 0 THEN 0 ELSE i + n)
                   ELSE IF i > n THEN n ELSE i IN
       SubSeq(s, norm(a) + 1, norm(b)))

Constraint(W, c, n) ==
    CASE c = "value" -> has_value(W, n)
      [] c = "lambda" -> W.attr[n].cls = "IRLambda"
      [] OTHER -> TRUE

NoMatch(W) == [W |-> W, ok |-> FALSE, U |-> <<>>]

\* unify(var, node, U): the constraint holds and an earlier binding of the
\* variable is the same node
unify_var(W, p, n, U) ==
    IF ~Constraint(W, p.c, n) THEN NoMatch(W)
    ELSE IF p.name \in DOMAIN U
    THEN IF U[p.name] = ENode(n) THEN [W |-> W, ok |-> TRUE, U |-> U]
         ELSE NoMatch(W)
    ELSE [W |-> W, ok |-> TRUE, U |-> U @@ (p.name :> ENode(n))]

\* unify(literal, value, U)
unify_lit(W, p, n, U) ==
    IF has_value(W, n) /\ PyEq(p.v, value(W, n))
    THEN [W |-> W, ok |-> TRUE, U |-> U]
    ELSE NoMatch(W)

\* position of the Ellipsis in a pattern (1-based), 0 when absent
DotsIndex(pattern) ==
    Let({i \in 1..Len(pattern) : pattern[i].k = "dots"}, LAMBDA hit :
       IF hit = {} THEN 0 ELSE MinOf(hit))

\* the pattern without the Ellipsis and the s-expression with its middle
\* collected in a list (graph.py 323-329)
Splice(pattern, sexp) ==
    Let(DotsIndex(pattern) - 1, LAMBDA idx :
        Let(Len(pattern) - idx - 1, LAMBDA ntail :
        Let(Len(sexp) - ntail, LAMBDA idx_last :
        Let([i \in 1..Len(sexp) |-> sexp[i].ns[1]], LAMBDA nodes :
        Let(PySlice(nodes, idx - 1, idx_last), LAMBDA mid :
        IF DotsIndex(pattern) = 0 THEN [pattern |-> pattern, sexp |-> sexp]
        ELSE [pattern |-> SubSeq(pattern, 1, idx)
                            \o SubSeq(pattern, idx + 2, Len(pattern)),
              sexp |-> PySlice(sexp, 0, idx - 1) \o <<EList(mid)>>
                         \o PySlice(sexp, idx_last, Len(sexp))])))))

RECURSIVE _match(_, _, _, _, _)
RECURSIVE match_zip(_, _, _, _, _, _)
RECURSIVE unify_each(_, _, _, _, _)

\* for x in node: if not unify(pattern, x, U): return False
unify_each(W, p, ns, U, i) ==
    IF i > Len(ns) THEN TRUE
    ELSE unify_var(W, p, ns[i], U).ok /\ unify_each(W, p, ns, U, i + 1)

\* for p, e in zip(pattern, sexp): U = self._match(lbda, e, p, U)
match_zip(W, l, pattern, sexp, U, i) ==
    IF i > Len(pattern) THEN [W |-> W, ok |-> TRUE, U |-> U]
    ELSE Let(_match(W, l, sexp[i], pattern[i], U), LAMBDA R :
            IF ~R.ok THEN R
            ELSE match_zip(R.W, l, pattern, sexp, R.U, i + 1))

\* result [W, ok, U]; W.err is set when productor raises
_match(W, l, e, p, U) ==
    IF W.err # "" THEN NoMatch(W)
    ELSE IF p.k = "tup"
    THEN IF e.list THEN NoMatch(Raise(W, "TypeError: unhashable list"))
         ELSE
         Let(productor(W, l, e.ns[1]), LAMBDA P :
            IF P.W.err # "" \/ P.op.kind # "apply" THEN NoMatch(P.W)
            ELSE Let(         <<ENode(P.op.fn)>>
                                \o [i \in 1..Len(P.op.args) |->
                                        ENode(P.op.args[i])], LAMBDA sexp0 :
                     Let(Splice(p.sub, sexp0), LAMBDA S :
                    IF Len(S.sexp) # Len(S.pattern) THEN NoMatch(P.W)
                    ELSE match_zip(P.W, l, S.pattern, S.sexp, U, 1))))
    ELSE IF e.list
    THEN IF p.k = "var"
         THEN IF unify_each(W, p, e.ns, U, 1)
              THEN [W |-> W, ok |-> TRUE,
                    U |-> (p.name :> e) @@ U]
              ELSE NoMatch(W)
         ELSE NoMatch(W)
    ELSE IF p.k = "var" THEN unify_var(W, p, e.ns[1], U)
    ELSE unify_lit(W, p, e.ns[1], U)

\* PatternOpt.match
match(W, l, node, pattern) == _match(W, l, ENode(node), PTuple(pattern), <<>>)

----------------------------------------------------------------------------
(* IRNode.rename and IRLambda.dup (graph.py 256-264, 495-508)              *)

\* G.edges(keys=True): the edges of each node, in node order
RECURSIVE edges_of_nodes(_, _, _)
edges_of_nodes(g, lo, hi) ==
    IF lo > hi THEN <<>>
    ELSE IF lo = hi THEN out_edges(g, g.nodes[lo])
    ELSE Let((lo + hi) \div 2, LAMBDA mid :
            edges_of_nodes(g, lo, mid) \o edges_of_nodes(g, mid + 1, hi))

edges_in_order(g) == edges_of_nodes(g, 1, Len(g.nodes))

\* for e in es[lo..hi]: add_edge(*e)
RECURSIVE add_edges_range(_, _, _, _)
add_edges_range(g, es, lo, hi) ==
    IF lo > hi THEN g
    ELSE IF lo = hi THEN add_edge(g, es[lo][1], es[lo][2], es[lo][3])
    ELSE Let((lo + hi) \div 2, LAMBDA mid :
             Let(add_edges_range(g, es, lo, mid), LAMBDA g1 :
            Then(g1, add_edges_range(g1, es, mid + 1, hi))))

add_edges_from(g, es) == add_edges_range(g, es, 1, Len(es))

\* variant that never copies a node
rename_self(W, n) == [W |-> W, n |-> n]

\* result [W, n]: the node itself for a literal or a global tag, else a
\* copy under a new name (gen.dup)
rename(W, n) ==
    Let(W.attr[n].tag, LAMBDA tag :
        IF tag.k = "val" THEN [W |-> W, n |-> n]
        ELSE IF tag.k = "sym" /\ is_global(tag) THEN [W |-> W, n |-> n]
        ELSE Let(Len(W.attr) + 1, LAMBDA id :
                 Let(  NewNode(W, [W.attr[n] EXCEPT
                                      !.tag.name = @ \o "#" \o ToString(id)]), LAMBDA W1 :
                [W |-> W1, n |-> id])))

\* corresp over a list of nodes; setdefault keeps an existing entry
RECURSIVE rename_range(_, _, _, _, _)
rename_range(W, ns, lo, hi, corresp) ==
    IF lo > hi THEN [W |-> W, corresp |-> corresp]
    ELSE IF lo = hi
    THEN IF ns[lo] \in DOMAIN corresp THEN [W |-> W, corresp |-> corresp]
         ELSE Let(rename(W, ns[lo]), LAMBDA R :
                 [W |-> R.W, corresp |-> corresp @@ (ns[lo] :> R.n)])
    ELSE Let((lo + hi) \div 2, LAMBDA mid :
             Let(rename_range(W, ns, lo, mid, corresp), LAMBDA R :
            Then(R, rename_range(R.W, ns, mid + 1, hi, R.corresp))))

rename_all(W, ns, corresp) == rename_range(W, ns, 1, Len(ns), corresp)

\* result [W, f2] with f2 the copied lambda record (not registered in lams)
dup(W, f) ==
    Let(W.lams[f], LAMBDA lb :
        Let(lb.graph, LAMBDA g :
        Let(rename_all(W, g.nodes, <<>>), LAMBDA R1 :
        Let(rename_all(R1.W, lb.inputs, R1.corresp), LAMBDA R2 :
        Let(R2.corresp, LAMBDA c :
        Let(edges_in_order(g), LAMBDA es :
        Let([i \in 1..Len(es) |-> <<c[es[i][1]], c[es[i][2]], es[i][3]>>], LAMBDA es2 :
        Let(add_edges_from(EmptyGraph, es2), LAMBDA g3 :
        IF lb.output \notin DOMAIN c
        THEN [W |-> Raise(R2.W, "KeyError"), f2 |-> lb]
        ELSE [W |-> R2.W,
              f2 |-> [lb EXCEPT !.graph = g3,
                                !.inputs = [i \in 1..Len(lb.inputs) |->
                                               c[lb.inputs[i]]],
                                !.output = c[lb.output]]]))))))))

----------------------------------------------------------------------------
(* The evaluator used by constant folding, and value_to_node               *)
(* (graph.py 571-590)                                                      *)

IsNum(v) == v.t \in {"int", "float"}

NumV(t1, t2, n) == IF t1 = "float" \/ t2 = "float" THEN FloatV(n) ELSE IntV(n)

\* fn(*args) for a builtin symbol applied to literal values:
\* [ok, kind, v]; kind "tuple" is a Python tuple
Evaluate(f, args) ==
    IF f.t # "sym" THEN [ok |-> FALSE, kind |-> "", v |-> IntV(0)]
    ELSE IF f.s = "add" /\ Len(args) = 2 /\ IsNum(args[1]) /\ IsNum(args[2])
    THEN [ok |-> TRUE, kind |-> "num",
          v |-> NumV(args[1].t, args[2].t, args[1].n + args[2].n)]
    ELSE IF f.s = "multiply" /\ Len(args) = 2 /\ IsNum(args[1])
            /\ IsNum(args[2])
    THEN [ok |-> TRUE, kind |-> "num",
          v |-> NumV(args[1].t, args[2].t, args[1].n * args[2].n)]
    ELSE IF f.s \in {"identity", "J", "Jinv"} /\ Len(args) = 1
            /\ IsNum(args[1])
    THEN [ok |-> TRUE, kind |-> "num", v |-> args[1]]
    ELSE IF f.s = "mktuple"
    THEN [ok |-> TRUE, kind |-> "tuple", v |-> IntV(0)]
    ELSE [ok |-> FALSE, kind |-> "", v |-> IntV(0)]

\* result [W, n]: int, float and str become an IRValue; anything else here
\* (a tuple) raises
value_to_node(W, res) ==
    IF res.kind = "num"
    THEN Let(NewNode(W, IRValue(res.v)), LAMBDA W1 :
            [W |-> W1, n |-> Newest(W1)])
    ELSE [W |-> Raise(W, "Do not recognize value"), n |-> 0]

----------------------------------------------------------------------------
(* The rules (graph.py 373-472)                                            *)

all_patterns ==
    <<"add_tuples", "multiply_by_one", "take_index", "J_switch",
      "Jinv_J_cancel", "J_Jinv_cancel", "inline", "call_partial",
      "eval_constant", "drop_copy", "eval_constant2">>

Pattern(rule) ==
    CASE rule = "add_tuples" ->
            <<PSym("add"), PTuple(<<PSym("mktuple"), X, PDots>>),
              PTuple(<<PSym("mktuple"), Y, PDots>>)>>
      [] rule = "multiply_by_one" -> <<PSym("multiply"), PLit(FloatV(1)), X>>
      [] rule = "take_index" ->
            <<PSym("index"), PTuple(<<PSym("mktuple"), X, PDots>>), V>>
      [] rule = "J_switch" ->
            <<PSym("J"), PTuple(<<PSym("switch"), X, Y, Z>>)>>
      [] rule = "Jinv_J_cancel" -> <<PSym("Jinv"), PTuple(<<PSym("J"), X>>)>>
      [] rule = "J_Jinv_cancel" -> <<PSym("J"), PTuple(<<PSym("Jinv"), X>>)>>
      [] rule = "inline" -> <<L, X, PDots>>
      [] rule = "call_partial" ->
            <<PTuple(<<PSym("partial"), X, Y, PDots>>), Z, PDots>>
      [] rule = "eval_constant" -> <<V1, V2, PDots>>
      [] rule = "drop_copy" -> <<PSym("identity"), X>>
      [] rule = "eval_constant2" -> <<L, V, PDots>>

\* what a handler returns: True/False, an Operation, or a node
HBool(W, b) == [W |-> W, kind |-> "bool", ret |-> b, op |-> NoOp, n |-> 0]
HOp(W, o) == [W |-> W, kind |-> "op", ret |-> TRUE, op |-> Op(o), n |-> 0]
HNode(W, n) == [W |-> W, kind |-> "node", ret |-> TRUE, op |-> NoOp, n |-> n]
HRaise(W, msg) == HBool(Raise(W, msg), FALSE)

Min2(a, b) == IF a < b THEN a ELSE b

\* for x, y in zip(X, Y): a new T node computing add(x, y)
RECURSIVE add_tuples_loop(_, _, _, _, _, _)
add_tuples_loop(W, l, xs, ys, i, adds) ==
    IF i > Min2(Len(xs), Len(ys)) THEN [W |-> W, adds |-> adds]
    ELSE Let(NewNode(W, IRNode("IRComputation", <<>>, OptSym("T"))), LAMBDA W1 :
             Let(Newest(W1), LAMBDA tmp :
             Let(NewNode(W1, IRValue(SymV("add"))), LAMBDA W2 :
             Let(ApplyOperation(Newest(W2), <<xs[i], ys[i]>>), LAMBDA op :
            add_tuples_loop(InstallIn(W2, l, tmp, op), l, xs, ys, i + 1,
                            Append(adds, tmp))))))

add_tuples(W, l, node, U) ==
    Let(add_tuples_loop(W, l, U["X"].ns, U["Y"].ns, 1, <<>>), LAMBDA R :
        Let(TupleOperation(R.W, R.adds), LAMBDA O :
       HOp(O.W, O.op)))

multiply_by_one(W, l, node, U) == HNode(W, U["X"].ns[1])

\* X[V.value], with Python's negative indices and IndexError
take_index(W, l, node, U) ==
    Let(U["X"].ns, LAMBDA xs :
        Let(value(W, U["V"].ns[1]), LAMBDA v :
        IF v.t # "int" THEN HRaise(W, "TypeError: list indices")
        ELSE IF v.n >= 0 /\ v.n < Len(xs) THEN HNode(W, xs[v.n + 1])
        ELSE IF v.n < 0 /\ v.n + Len(xs) >= 0
        THEN HNode(W, xs[v.n + Len(xs) + 1])
        ELSE HRaise(W, "IndexError")))

RECURSIVE J_switch_loop(_, _, _, _, _)
J_switch_loop(W, l, vs, i, tmps) ==
    IF i > Len(vs) THEN [W |-> W, tmps |-> tmps]
    ELSE Let(NewNode(W, IRNode("IRComputation", <<>>, OptSym("T"))), LAMBDA W1 :
             Let(Newest(W1), LAMBDA t :
             Let(NewNode(W1, IRValue(SymV("J"))), LAMBDA W2 :
             Let(ApplyOperation(Newest(W2), <<vs[i]>>), LAMBDA op :
            J_switch_loop(InstallIn(W2, l, t, op), l, vs, i + 1,
                          Append(tmps, t))))))

J_switch(W, l, node, U) ==
    Let(     J_switch_loop(W, l, <<U["X"].ns[1], U["Y"].ns[1], U["Z"].ns[1]>>,
                           1, <<>>), LAMBDA R :
        Let(NewNode(R.W, IRValue(SymV("switch"))), LAMBDA W1 :
       HOp(W1, ApplyOperation(Newest(W1), R.tmps))))

\* variant that keeps the inner application: Jinv(J(x)) becomes J(x)
Jinv_J_keep(W, l, node, U) == HNode(W, productor(W, l, node).op.args[1])

Jinv_J_cancel(W, l, node, U) == HNode(W, U["X"].ns[1])

J_Jinv_cancel(W, l, node, U) == HNode(W, U["X"].ns[1])

\* for input, arg in zip(f2.inputs, args): CopyOperation(arg).install
RECURSIVE inline_inputs(_, _, _, _, _)
inline_inputs(W, l, inputs, args, i) ==
    IF i > Min2(Len(inputs), Len(args)) THEN W
    ELSE Let(CopyOperation(W, args[i]), LAMBDA O :
            inline_inputs(InstallIn(O.W, l, inputs[i], O.op), l, inputs,
                          args, i + 1))

\* variant that binds the parameters on the callee's own nodes, in the
\* callee's own graph, and copies nothing
inline_shared(W, l, node, U) ==
    Let(U["L"].ns[1], LAMBDA f :
        Let([W EXCEPT !.lams[l].graph =
                 add_edges_from(@, edges_in_order(W.lams[f].graph))], LAMBDA W1 :
        Let(inline_inputs(W1, f, W.lams[f].inputs, U["X"].ns, 1), LAMBDA W2 :
        Let(CopyOperation(W2, W.lams[f].output), LAMBDA O :
        HBool(InstallIn(O.W, l, node, O.op), TRUE)))))

inline(W, l, node, U) ==
    Let(dup(W, U["L"].ns[1]), LAMBDA D :
        Let(D.f2, LAMBDA f2 :
        Let(  [D.W EXCEPT !.lams[l].graph =
                              add_edges_from(@, edges_in_order(f2.graph))], LAMBDA W1 :
        Let(inline_inputs(W1, l, f2.inputs, U["X"].ns, 1), LAMBDA W2 :
        Let(CopyOperation(W2, f2.output), LAMBDA O :
        IF D.W.err # "" THEN HBool(D.W, FALSE)
        ELSE HBool(InstallIn(O.W, l, node, O.op), TRUE))))))

call_partial(W, l, node, U) ==
    HOp(W, ApplyOperation(U["X"].ns[1], U["Y"].ns \o U["Z"].ns))

\* variant without the test for the partial primitive
eval_constant_any(W, l, node, U) ==
    Let(value(W, U["V1"].ns[1]), LAMBDA f :
        Let([i \in 1..Len(U["V2"].ns) |-> value(W, U["V2"].ns[i])], LAMBDA args :
        Let(Evaluate(f, args), LAMBDA res :
        IF ~res.ok THEN HRaise(W, "evaluator failure")
        ELSE Let(value_to_node(W, res), LAMBDA R :
                IF R.W.err # "" THEN HBool(R.W, FALSE) ELSE HNode(R.W, R.n)))))

eval_constant(W, l, node, U) ==
    Let(value(W, U["V1"].ns[1]), LAMBDA f :
        Let([i \in 1..Len(U["V2"].ns) |-> value(W, U["V2"].ns[i])], LAMBDA args :
        Let(Evaluate(f, args), LAMBDA res :
        IF f = SymV("partial") THEN HBool(W, FALSE)
        ELSE IF ~res.ok THEN HRaise(W, "evaluator failure")
        ELSE Let(value_to_node(W, res), LAMBDA R :
                IF R.W.err # "" THEN HBool(R.W, FALSE) ELSE HNode(R.W, R.n)))))

drop_copy(W, l, node, U) == HNode(W, U["X"].ns[1])

\* the handler takes V1, V2 but is called with L=, V=
eval_constant2(W, l, node, U) ==
    HRaise(W, "TypeError: unexpected keyword argument")

Handler(rule, W, l, node, U) ==
    CASE rule = "add_tuples" -> add_tuples(W, l, node, U)
      [] rule = "multiply_by_one" -> multiply_by_one(W, l, node, U)
      [] rule = "take_index" -> take_index(W, l, node, U)
      [] rule = "J_switch" -> J_switch(W, l, node, U)
      [] rule = "Jinv_J_cancel" -> Jinv_J_cancel(W, l, node, U)
      [] rule = "J_Jinv_cancel" -> J_Jinv_cancel(W, l, node, U)
      [] rule = "inline" -> inline(W, l, node, U)
      [] rule = "call_partial" -> call_partial(W, l, node, U)
      [] rule = "eval_constant" -> eval_constant(W, l, node, U)
      [] rule = "drop_copy" -> drop_copy(W, l, node, U)
      [] rule = "eval_constant2" -> eval_constant2(W, l, node, U)

----------------------------------------------------------------------------
(* PatternOpt.__call__ and IRLambda.simplify (graph.py 357-370, 592-597)   *)

\* result [W, ret]
PatternOpt(W, l, rule, node) ==
    Let(match(W, l, node, Pattern(rule)), LAMBDA M :
        IF M.W.err # "" THEN [W |-> M.W, ret |-> FALSE]
        ELSE IF ~(M.ok /\ DOMAIN M.U # {}) THEN [W |-> M.W, ret |-> FALSE]
        ELSE Let(Handler(rule, M.W, l, node, M.U), LAMBDA H :
                IF H.W.err # "" THEN [W |-> H.W, ret |-> FALSE]
                ELSE IF H.kind = "bool" THEN [W |-> H.W, ret |-> H.ret]
                ELSE IF H.kind = "op"
                THEN [W |-> InstallIn(H.W, l, node,
                                      ApplyOperation(H.op.fn, H.op.args)),
                      ret |-> TRUE]
                ELSE [W |-> replace(H.W, l, node, H.n), ret |-> TRUE]))

\* for opt in all_patterns.values()[lo..hi]: changes |= opt(self, n)
\* (the loops are split in halves to keep the evaluation shallow)
RECURSIVE simplify_node(_, _, _, _, _)
simplify_node(W, l, n, lo, hi) ==
    IF W.err # "" \/ lo > hi THEN [W |-> W, ret |-> FALSE]
    ELSE IF lo = hi THEN PatternOpt(W, l, all_patterns[lo], n)
    ELSE Let((lo + hi) \div 2, LAMBDA mid :
             Let(simplify_node(W, l, n, lo, mid), LAMBDA R1 :
             Let(simplify_node(R1.W, l, n, mid + 1, hi), LAMBDA R2 :
            Then(R1, [W |-> R2.W, ret |-> R1.ret \/ R2.ret]))))

\* for n in ns[lo..hi]
RECURSIVE simplify_loop(_, _, _, _, _)
simplify_loop(W, l, ns, lo, hi) ==
    IF W.err # "" \/ lo > hi THEN [W |-> W, ret |-> FALSE]
    ELSE IF lo = hi THEN simplify_node(W, l, ns[lo], 1, Len(all_patterns))
    ELSE Let((lo + hi) \div 2, LAMBDA mid :
             Let(simplify_loop(W, l, ns, lo, mid), LAMBDA R1 :
             Let(simplify_loop(R1.W, l, ns, mid + 1, hi), LAMBDA R2 :
            Then(R1, [W |-> R2.W, ret |-> R1.ret \/ R2.ret]))))

\* variant that returns after the first node of the graph
simplify_first_node(W, l) ==
    simplify_loop(W, l, W.lams[l].graph.nodes, 1,
                  Min2(1, Len(W.lams[l].graph.nodes)))

simplify(W, l) ==
    simplify_loop(W, l, W.lams[l].graph.nodes, 1, Len(W.lams[l].graph.nodes))

----------------------------------------------------------------------------
(* nx.topological_sort as IRGraph.toposort and cse use it (graph.py 243,   *)
(* 544): zero-indegree nodes are kept on a stack, the last one is taken,   *)
(* and each of its edges lowers the indegree of its target.                *)

in_degree(g, v) == Cardinality({i \in 1..Len(g.edges) : g.edges[i][2] = v})

RECURSIVE kahn_children(_, _, _, _)
kahn_children(es, i, indeg, zero) ==
    IF i > Len(es) THEN [indeg |-> indeg, zero |-> zero]
    ELSE Let(es[i][2], LAMBDA c :
             Let(indeg[c] - 1, LAMBDA d :
            kahn_children(es, i + 1, [indeg EXCEPT ![c] = d],
                          IF d = 0 THEN Append(zero, c) ELSE zero)))

RECURSIVE kahn(_, _, _, _)
kahn(g, indeg, zero, out) ==
    IF zero = <<>>
    THEN [order |-> out, ok |-> \A v \in DOMAIN indeg : indeg[v] = 0]
    ELSE Let(zero[Len(zero)], LAMBDA node :
             Let( kahn_children(out_edges(g, node), 1, indeg,
                                SubSeq(zero, 1, Len(zero) - 1)), LAMBDA R :
             Let(Append(out, node), LAMBDA out1 :
            Then(<<R, out1>>, kahn(g, R.indeg, R.zero, out1)))))

\* variant that lists the nodes in the order they were added to the graph
topological_sort_added(g) == [order |-> g.nodes, ok |-> TRUE]

\* result [order, ok]; ok is FALSE for a graph with a cycle
\* (NetworkXUnfeasible)
topological_sort(g) ==
    kahn(g, [v \in NodeSet(g) |-> in_degree(g, v)],
         SelectSeq(g.nodes, LAMBDA v : in_degree(g, v) = 0), <<>>)

Reverse(s) == [i \in 1..Len(s) |-> s[Len(s) + 1 - i]]

----------------------------------------------------------------------------
(* IRLambda.cse (graph.py 541-557).  A hash is the xor of identity-like    *)
(* atoms (object and class hashes) and of small integers, so two hashes    *)
(* are equal exactly when they are equal for every value of the atoms.     *)

RECURSIVE BitXor(_, _)
BitXor(a, b) ==
    IF a = 0 THEN b
    ELSE IF b = 0 THEN a
    ELSE (((a % 2) + (b % 2)) % 2) + 2 * BitXor(a \div 2, b \div 2)

HXor(h1, h2) ==
    [atoms |-> (h1.atoms \ h2.atoms) \cup (h2.atoms \ h1.atoms),
     n |-> BitXor(h1.n, h2.n)]

HZero == [atoms |-> {}, n |-> 0]

\* hash(k) of a role: hash(IN) ^ index, and the object hash of FN, CL, COPY
hash_role(k) == [atoms |-> {k[1]}, n |-> k[2]]

\* hash(n) of an IRLambda or IRInput: the object's identity
hash_node(n) == [atoms |-> {"node" \o ToString(n)}, n |-> 0]

\* hash(v) ^ hash(type(v))
hash_value(v) ==
    CASE v.t = "int" /\ v.n >= 0 -> [atoms |-> {"type:int"}, n |-> v.n]
      [] v.t = "float" /\ v.n >= 0 -> [atoms |-> {"type:float"}, n |-> v.n]
      [] v.t = "sym" -> [atoms |-> {"sym:" \o v.s, "type:Symbol"}, n |-> 0]
      [] OTHER -> [atoms |-> {"value:" \o ToString(v)}, n |-> 0]

RECURSIVE hash_edges(_, _, _, _)
hash_edges(es, i, node_to_hash, h) ==
    IF i > Len(es) THEN h
    ELSE hash_edges(es, i + 1, node_to_hash,
                    HXor(h, HXor(node_to_hash[es[i][2]], hash_role(es[i][3]))))

\* hash_to_node[h].append(n): buckets in order of first insertion
bucket_append(buckets, h, n) ==
    Let({i \in 1..Len(buckets) : buckets[i].h = h}, LAMBDA hit :
        IF hit = {} THEN Append(buckets, [h |-> h, ns |-> <<n>>])
        ELSE [buckets EXCEPT ![MinOf(hit)].ns = Append(@, n)])

\* node_to_hash and hash_to_node after the nodes order[lo..hi]
RECURSIVE cse_hashes(_, _, _, _, _, _)
cse_hashes(W, l, order, lo, hi, acc) ==
    IF lo > hi THEN acc
    ELSE IF lo = hi
    THEN Let(order[lo], LAMBDA n :
             Let( IF W.attr[n].cls \in {"IRLambda", "IRInput"}
                  THEN hash_node(n)
                  ELSE IF _is_constant(W, n) THEN hash_value(value(W, n))
                  ELSE hash_edges(out_edges(W.lams[l].graph, n), 1,
                                  acc.node_to_hash, HZero), LAMBDA h :
            [node_to_hash |-> (n :> h) @@ acc.node_to_hash,
             buckets |-> bucket_append(acc.buckets, h, n)]))
    ELSE Let((lo + hi) \div 2, LAMBDA mid :
             Let(cse_hashes(W, l, order, lo, mid, acc), LAMBDA acc1 :
            Then(acc1, cse_hashes(W, l, order, mid + 1, hi, acc1))))

\* for n in nodes[lo..hi]: self.merge(n, node0)
RECURSIVE cse_bucket(_, _, _, _, _)
cse_bucket(W, l, ns, lo, hi) ==
    IF W.err # "" \/ lo > hi THEN W
    ELSE IF lo = hi THEN merge(W, l, ns[lo], ns[1]).W
    ELSE Let((lo + hi) \div 2, LAMBDA mid :
             Let(cse_bucket(W, l, ns, lo, mid), LAMBDA W1 :
            Then(W1, cse_bucket(W1, l, ns, mid + 1, hi))))

\* for h, (node0, *nodes) in hash_to_node.items()
RECURSIVE cse_merges(_, _, _, _, _)
cse_merges(W, l, buckets, lo, hi) ==
    IF W.err # "" \/ lo > hi THEN W
    ELSE IF lo = hi
    THEN cse_bucket(W, l, buckets[lo].ns, 2, Len(buckets[lo].ns))
    ELSE Let((lo + hi) \div 2, LAMBDA mid :
             Let(cse_merges(W, l, buckets, lo, mid), LAMBDA W1 :
            Then(W1, cse_merges(W1, l, buckets, mid + 1, hi))))

\* result W: cse returns None
cse(W, l) ==
    Let(topological_sort(W.lams[l].graph), LAMBDA T :
        IF ~T.ok THEN Raise(W, "NetworkXUnfeasible")
        ELSE Let(Reverse(T.order), LAMBDA order :
                 Let( cse_hashes(W, l, order, 1, Len(order),
                                 [node_to_hash |-> <<>>, buckets |-> <<>>]), LAMBDA H :
                Then(H, cse_merges(W, l, H.buckets, 1, Len(H.buckets))))))

----------------------------------------------------------------------------
(* Specification SpecRules: a Lambda is acquired from a small ANF function *)
(* and single rules are applied to single nodes (PatternOpt.__call__, as   *)
(* simplify does for every node and rule), with prune calls in between.    *)

MaxRuleSteps == 2

\* the callee g(p) = add(p, 1)
CalleeG ==
    LambdaNode("g", <<"p">>,
               <<Binding(LhsSym("r"),
                         ApplyNode(Builtin("add"),
                                   <<Sym("p"), ValueNode(IntV(1))>>))>>,
               Sym("r"))

\* c = add(a, b) over two tuples of up to MaxArgs elements
TuplePrograms ==
    {LambdaNode("f", <<"x", "y">>,
                <<Binding(LhsSym("a"), TupleNode(xs)),
                  Binding(LhsSym("b"), TupleNode(ys)),
                  Binding(LhsSym("c"),
                          ApplyNode(Builtin("add"), <<Sym("a"), Sym("b")>>))>>,
                Sym("c")) :
        xs \in SeqsUpTo({Sym("x"), Sym("y")}, MaxArgs),
        ys \in SeqsUpTo({Sym("x"), Sym("y")}, MaxArgs)}

CallFns == {Builtin("J"), Builtin("Jinv"), Global("g"), Global("f")}

\* a = h1(x); b = h2(o2); c = (o3, b), with f the function itself
CallPrograms ==
    {LambdaNode("f", <<"x", "y">>,
                <<Binding(LhsSym("a"), ApplyNode(h1, <<Sym("x")>>)),
                  Binding(LhsSym("b"), ApplyNode(h2, <<o2>>)),
                  Binding(LhsSym("c"), TupleNode(<<o3, Sym("b")>>))>>,
                body) :
        h1 \in CallFns, h2 \in CallFns,
        o2 \in {Sym("x"), Sym("a")},
        o3 \in {Sym("a"), Sym("b")},
        body \in {Sym("c"), Sym("a")}}

\* a = h1(x); b = h2(a); c = h3(b), a chain of J and Jinv applications
ChainPrograms ==
    {LambdaNode("f", <<"x", "y">>,
                <<Binding(LhsSym("a"), ApplyNode(h1, <<Sym("x")>>)),
                  Binding(LhsSym("b"), ApplyNode(h2, <<Sym("a")>>)),
                  Binding(LhsSym("c"), ApplyNode(h3, <<Sym("b")>>))>>,
                Sym("c")) :
        h1 \in {Builtin("J"), Builtin("Jinv")},
        h2 \in {Builtin("J"), Builtin("Jinv")},
        h3 \in {Builtin("J"), Builtin("Jinv")}}

\* a = add(args) over literals: a sum, one argument too few, and a symbol
\* where a number is expected
ConstPrograms ==
    {LambdaNode("f", <<"x", "y">>,
                <<Binding(LhsSym("a"), ApplyNode(Builtin("add"), args))>>,
                Sym("a")) :
        args \in {<<ValueNode(IntV(2)), ValueNode(IntV(3))>>,
                  <<ValueNode(IntV(2))>>,
                  <<ValueNode(IntV(2)), Builtin("J")>>}}

\* a = partial(g, args); b = a(y); c = (b, b): a call of a closure
ClosurePrograms ==
    {LambdaNode("f", <<"x", "y">>,
                <<Binding(LhsSym("a"), ClosureNode(Global("g"), args)),
                  Binding(LhsSym("b"), ApplyNode(Sym("a"), <<Sym("y")>>)),
                  Binding(LhsSym("c"), TupleNode(<<Sym("b"), Sym("b")>>))>>,
                Sym("c")) :
        args \in SeqsUpTo({Sym("x"), Sym("y")}, MaxArgs)}

\* a = (x,); b = (y,); c = add(a, b); d = f(c, c): a sum of tuples in a
\* function that calls itself
SelfCallPrograms ==
    {LambdaNode("f", <<"x", "y">>,
                <<Binding(LhsSym("a"), TupleNode(<<Sym("x")>>)),
                  Binding(LhsSym("b"), TupleNode(<<Sym("y")>>)),
                  Binding(LhsSym("c"),
                          ApplyNode(Builtin("add"), <<Sym("a"), Sym("b")>>)),
                  Binding(LhsSym("d"),
                          ApplyNode(Global("f"), <<Sym("c"), Sym("c")>>))>>,
                Sym("d"))}

RulePrograms ==
    TuplePrograms \cup CallPrograms \cup ChainPrograms \cup ConstPrograms
        \cup ClosurePrograms \cup SelfCallPrograms

NoRuleLast ==
    [op |-> "none", rule |-> "", a |-> 0, pre |-> <<>>, ret |-> FALSE,
     err |-> "", callee |-> 0, f2 |-> <<>>, cpre |-> <<>>, prev |-> <<>>]

InitRules ==
    /\ attr = <<>>
    /\ lams = <<>>
    /\ anf_lbdas = <<>>
    /\ pool \in {<<p, CalleeG>> : p \in RulePrograms}
    /\ pc = "start"
    /\ last = NoRuleLast
    /\ steps = 0

RAcquire ==
    /\ pc = "start"
    /\ \E R \in {acquire(World, 1)} :
          /\ SetWorld(R.W)
          /\ pc' = IF R.W.err # "" THEN "error" ELSE "ready"
          /\ last' = [NoRuleLast EXCEPT !.op = "acquire", !.err = R.W.err]
    /\ UNCHANGED <<pool, steps>>

\* the Lambda that inline would copy at node, and the copy it would make
InlineMatch(W, l, node) == match(W, l, node, Pattern("inline"))

\* the nodes that have a producer
Computed(g) == {e[1] : e \in EdgeSet(g)}

\* opt(lbda, node) for one rule and one computed node of the graph
RApply ==
    /\ pc = "ready"
    /\ steps < MaxRuleSteps
    /\ \E j \in 1..Len(all_patterns), node \in Computed(lams[Top].graph) :
          \E rule \in {all_patterns[j]} :
          \E R \in {PatternOpt(World, Top, rule, node)} :
          \E M \in {InlineMatch(World, Top, node)} :
          \E inl \in {rule = "inline" /\ R.ret /\ R.W.err = ""} :
             /\ SetWorld(R.W)
             /\ pc' = IF R.W.err # "" THEN "error" ELSE "ready"
             /\ last' = [op |-> "rule", rule |-> rule, a |-> node,
                         pre |-> lams[Top], ret |-> R.ret, err |-> R.W.err,
                         callee |-> IF inl THEN M.U["L"].ns[1] ELSE 0,
                         f2 |-> IF inl THEN dup(M.W, M.U["L"].ns[1]).f2
                                ELSE <<>>,
                         cpre |-> IF inl THEN lams[M.U["L"].ns[1]]
                                  ELSE <<>>,
                         prev |-> <<[last EXCEPT !.prev = <<>>]>>]
    /\ steps' = steps + 1
    /\ UNCHANGED pool

\* lbda.prune() after the rules, which ends the run
RPrune ==
    /\ pc = "ready"
    /\ last.op = "rule"
    /\ \E R \in {prune(World, Top)} :
          /\ SetWorld(R.W)
          /\ pc' = IF R.W.err # "" THEN "error" ELSE "done"
          /\ last' = [NoRuleLast EXCEPT
                         !.op = "prune", !.pre = lams[Top], !.ret = R.ret,
                         !.err = R.W.err,
                         !.prev = <<[last EXCEPT !.prev = <<>>]>>]
    /\ UNCHANGED <<pool, steps>>

\* one round of the driver on the acquired Lambda: simplify, cse, prune
RRound ==
    /\ pc = "ready"
    /\ last.op = "acquire"
    /\ \E S \in {simplify(World, Top)} :
       \E W1 \in {IF S.W.err # "" THEN S.W ELSE cse(S.W, Top)} :
       \E F \in {IF W1.err # "" THEN W1 ELSE prune(W1, Top).W} :
          /\ SetWorld(F)
          /\ pc' = IF F.err # "" THEN "error" ELSE "done"
          /\ last' = [NoRuleLast EXCEPT
                         !.op = "round", !.pre = lams[Top], !.ret = S.ret,
                         !.err = F.err,
                         !.prev = <<[last EXCEPT !.prev = <<>>]>>]
    /\ UNCHANGED <<pool, steps>>

NextRules ==
    \/ RAcquire
    \/ RApply
    \/ RPrune
    \/ RRound

SpecRules == InitRules /\ [][NextRules]_vars

\* the world with the Lambda under test as it was in rec.pre
WorldAt(rec) == [World EXCEPT !.lams = (Top :> rec.pre) @@ @]

----------------------------------------------------------------------------
(* Specification SpecDriver: Universe.aggressively_optimize (graph.py      *)
(* 670-679) on a Lambda acquired from a small ANF function.  One action    *)
(* per statement of the loop body; steps counts the completed rounds.      *)

MaxDBind == 3
MaxRounds == 3

\* what binding j may apply; only the first binding may call f itself
DriverFns(j) ==
    {Builtin("J"), Builtin("Jinv"), Global("g")}
        \cup (IF j = 1 THEN {Global("f")} ELSE {})

DriverOperands(j) ==
    {Sym("x"), ValueNode(IntV(2))} \cup {Sym(BindName(i)) : i \in 1..(j - 1)}

RECURSIVE DriverBindings(_)
DriverBindings(n) ==
    IF n = 0 THEN {<<>>}
    ELSE {Append(bs, Binding(LhsSym(BindName(n)), rhs)) :
            bs \in DriverBindings(n - 1),
            rhs \in {ApplyNode(h, <<o>>) :
                        h \in DriverFns(n), o \in DriverOperands(n)}
                    \cup {ApplyNode(Builtin("add"),
                                     <<o, ValueNode(IntV(2))>>) :
                            o \in DriverOperands(n)}}

\* t = (2, 3, 4); i = index(t, 1); out = multiply(1.0, i)
FoldingExample ==
    LambdaNode("f", <<"x">>,
               <<Binding(LhsSym("t"),
                         TupleNode(<<ValueNode(IntV(2)), ValueNode(IntV(3)),
                                     ValueNode(IntV(4))>>)),
                 Binding(LhsSym("i"),
                         ApplyNode(Builtin("index"),
                                   <<Sym("t"), ValueNode(IntV(1))>>)),
                 Binding(LhsSym("out"),
                         ApplyNode(Builtin("multiply"),
                                   <<ValueNode(FloatV(1)), Sym("i")>>))>>,
               Sym("out"))

DriverPrograms ==
    {LambdaNode("f", <<"x">>, bs, Sym(BindName(MaxDBind))) :
        bs \in DriverBindings(MaxDBind)}
      \cup {FoldingExample}

NoDriverLast ==
    [op |-> "none", pre |-> <<>>, ret |-> FALSE, merged |-> FALSE,
     err |-> ""]

InitDriver ==
    /\ attr = <<>>
    /\ lams = <<>>
    /\ anf_lbdas = <<>>
    /\ pool \in {<<p, CalleeG>> : p \in DriverPrograms}
    /\ pc = "start"
    /\ last = NoDriverLast
    /\ steps = 0

DAcquire ==
    /\ pc = "start"
    /\ \E R \in {acquire(World, 1)} :
          /\ SetWorld(R.W)
          /\ pc' = IF R.W.err # "" THEN "error" ELSE "simplify"
          /\ last' = [NoDriverLast EXCEPT !.op = "acquire", !.err = R.W.err]
    /\ UNCHANGED <<pool, steps>>

\* lbda.simplify(); last.pre is the Lambda at the start of the round
DSimplify ==
    /\ pc = "simplify"
    /\ steps < MaxRounds
    /\ \E R \in {simplify(World, Top)} :
          /\ SetWorld(R.W)
          /\ pc' = IF R.W.err # "" THEN "raised" ELSE "cse"
          /\ last' = [op |-> "simplify", pre |-> lams[Top], ret |-> R.ret,
                      merged |-> FALSE, err |-> R.W.err]
    /\ UNCHANGED <<pool, steps>>

\* lbda.cse() returns None, so changes = any(opers) is simplify's result;
\* last.merged records whether cse redirected an edge or the Output
DCse ==
    /\ pc = "cse"
    /\ \E W \in {cse(World, Top)} :
          /\ SetWorld(W)
          /\ pc' = IF W.err # "" THEN "raised" ELSE "prune"
          /\ last' = [last EXCEPT !.op = "cse", !.err = W.err,
                                  !.merged = W.lams[Top] # lams[Top]]
    /\ UNCHANGED <<pool, steps>>

\* lbda.prune(), then the loop test
DPrune ==
    /\ pc = "prune"
    /\ \E R \in {prune(World, Top)} :
          /\ SetWorld(R.W)
          /\ pc' = IF R.W.err # "" THEN "raised"
                   ELSE IF last.ret THEN "simplify" ELSE "returned"
          /\ last' = [last EXCEPT !.op = "prune", !.err = R.W.err]
    /\ steps' = steps + 1
    /\ UNCHANGED pool

NextDriver ==
    \/ DAcquire
    \/ DSimplify
    \/ DCse
    \/ DPrune

SpecDriver == InitDriver /\ [][NextDriver]_vars

----------------------------------------------------------------------------
(* Claims about single rules (SpecRules)                                   *)

\* the rule application before the current operation
Prev == last.prev[1]

\* the add_tuples pattern matched at node last.a in the graph before the call
AddTuplesMatch == match(WorldAt(last), Top, last.a, Pattern("add_tuples"))

AddTuplesCall ==
    /\ last.op = "rule"
    /\ last.rule = "add_tuples"
    /\ last.err = ""
    /\ AddTuplesMatch.ok

\* node computes fn(args) with fn the builtin named name
Computes(node, name, args) ==
    LET P == productor(World, Top, node)
    IN  /\ P.W.err = ""
        /\ P.op.kind = "apply"
        /\ has_value(World, P.op.fn)
        /\ value(World, P.op.fn) = SymV(name)
        /\ P.op.args = args

\* C8: add_tuples rewrites add(mktuple(x_0..x_{n-1}), mktuple(y_0..y_{m-1}))
\* only when n = m; the node then becomes mktuple(t_0..t_{n-1}) with every
\* t_i a new node computing add(x_i, y_i); when n differs from m the rule
\* reports no change and the graph is left as it was.
C8_TupleWiseDistribution ==
    AddTuplesCall =>
        LET xs == AddTuplesMatch.U["X"].ns
            ys == AddTuplesMatch.U["Y"].ns
        IN  IF Len(xs) = Len(ys)
            THEN /\ last.ret
                 /\ \E ts \in [1..Len(xs) -> NodeSet(lams[Top].graph)] :
                       /\ Computes(last.a, "mktuple", ts)
                       /\ \A i \in 1..Len(xs) :
                             /\ ts[i] \notin NodeSet(last.pre.graph)
                             /\ Computes(ts[i], "add", <<xs[i], ys[i]>>)
                             /\ \A j \in 1..Len(xs) : i # j => ts[i] # ts[j]
            ELSE /\ ~last.ret
                 /\ lams[Top] = last.pre

\* add_tuples was applied to two tuples of different lengths
C8_Unequal ==
    /\ AddTuplesCall
    /\ Len(AddTuplesMatch.U["X"].ns) # Len(AddTuplesMatch.U["Y"].ns)

\* the inline rule fired at two different call nodes for the same callee
TwoInlines ==
    /\ last.op = "rule"
    /\ last.rule = "inline"
    /\ last.ret
    /\ last.err = ""
    /\ last.prev # <<>>
    /\ Prev.op = "rule"
    /\ Prev.rule = "inline"
    /\ Prev.ret
    /\ Prev.callee = last.callee
    /\ Prev.a # last.a

\* the nodes of an inlined copy
CopyNodes(f2) == NodeSet(f2.graph) \cup Range(f2.inputs) \cup {f2.output}

\* rename returns such a node itself: its tag is a literal or a global symbol
KeepsIdentity(n) ==
    \/ attr[n].tag.k = "val"
    \/ attr[n].tag.k = "sym" /\ is_global(attr[n].tag)

\* same edges, roles, inputs and output up to a one-to-one renaming of nodes
StructurallyEqual(fa, fb) ==
    LET ea == edges_in_order(fa.graph)
        eb == edges_in_order(fb.graph)
    IN  /\ Len(ea) = Len(eb)
        /\ Len(fa.inputs) = Len(fb.inputs)
        /\ LET pairs == {<<ea[i][1], eb[i][1]>> : i \in 1..Len(ea)}
                           \cup {<<ea[i][2], eb[i][2]>> : i \in 1..Len(ea)}
                           \cup {<<fa.inputs[i], fb.inputs[i]>> :
                                     i \in 1..Len(fa.inputs)}
                           \cup {<<fa.output, fb.output>>}
           IN /\ \A i \in 1..Len(ea) : ea[i][3] = eb[i][3]
              /\ \A p, q \in pairs : (p[1] = q[1]) <=> (p[2] = q[2])
              /\ \A p \in pairs :
                    /\ attr[p[1]].cls = attr[p[2]].cls
                    /\ attr[p[1]].values = attr[p[2]].values

\* C5 as stated: two inlinings of one callee at two call nodes add two
\* structurally equal sets of nodes that share no node.
C5_AsStated ==
    TwoInlines =>
        /\ StructurallyEqual(Prev.f2, last.f2)
        /\ CopyNodes(Prev.f2) \cap CopyNodes(last.f2) = {}

\* C5: when inline fires for the same callee (a Lambda other than the
\* caller) at two different call nodes, the two copies are structurally
\* equal, the only nodes they share with each other or with the callee's
\* own graph are those whose tag is a literal or a global symbol, and every
\* other node of the callee is copied anew each time.
C5_InliningHygiene ==
    (TwoInlines /\ last.callee # Top) =>
        LET own == CopyNodes(lams[last.callee])
            c1 == CopyNodes(Prev.f2)
            c2 == CopyNodes(last.f2)
        IN  /\ StructurallyEqual(Prev.f2, last.f2)
            /\ \A n \in c1 \cap c2 : KeepsIdentity(n)
            /\ \A n \in (c1 \cup c2) \cap own : KeepsIdentity(n)
            /\ \A n \in own : KeepsIdentity(n) => n \in c1 \cap c2
            /\ Cardinality(c1) = Cardinality(own)
            /\ Cardinality(c2) = Cardinality(own)

\* two inlinings of g, whose copies share g's add and literal nodes and
\* each have nodes of their own
C5_Witness ==
    /\ TwoInlines
    /\ last.callee # Top
    /\ CopyNodes(Prev.f2) \cap CopyNodes(last.f2) # {}
    /\ CopyNodes(Prev.f2) \ CopyNodes(last.f2) # {}
    /\ CopyNodes(last.f2) \ CopyNodes(Prev.f2) # {}

CancelRules == {"Jinv_J_cancel", "J_Jinv_cancel"}

\* the cancellation pattern matched at node Prev.a before the rule ran
CancelMatch == match(WorldAt(Prev), Top, Prev.a, Pattern(Prev.rule))

\* a prune directly after a cancellation rule was applied where it matches
CancelThenPrune ==
    /\ last.op = "prune"
    /\ last.prev # <<>>
    /\ Prev.op = "rule"
    /\ Prev.rule \in CancelRules
    /\ Prev.err = ""
    /\ CancelMatch.ok

\* the inner node m of n = Jinv(m), m = J(x)
InnerOf(rec) == productor(WorldAt(rec), Top, rec.a).op.args[1]

\* node computes h(arg) in the Lambda lb, h the builtin named name
Applies(lb, node, name, arg) ==
    LET P == productor([World EXCEPT !.lams = (Top :> lb) @@ @], Top, node)
    IN  /\ P.W.err = ""
        /\ P.op.kind = "apply"
        /\ has_value(World, P.op.fn)
        /\ value(World, P.op.fn) = SymV(name)
        /\ P.op.args = <<arg>>

\* n = outer(m) with m = inner(x) in the Lambda lb, m used by n only
CancelTriple(lb, outer, inner, n, m, x) ==
    /\ Applies(lb, n, outer, m)
    /\ Applies(lb, m, inner, x)
    /\ \A e \in EdgeSet(lb.graph) : e[2] = m => e[1] = n

\* C9 as stated: for n = Jinv(m) with m = J(x), m used by n only, one round
\* of the driver leaves neither n nor m in the graph, every node that used n
\* and remains uses x in the same role, and x is the Output if n was; the
\* same with J and Jinv exchanged.
C9_AsStated ==
    (last.op = "round") =>
        \A n, m, x \in NodeSet(last.pre.graph) :
            (\/ CancelTriple(last.pre, "Jinv", "J", n, m, x)
             \/ CancelTriple(last.pre, "J", "Jinv", n, m, x))
            => /\ last.err = ""
               /\ n \notin NodeSet(lams[Top].graph)
               /\ m \notin NodeSet(lams[Top].graph)
               /\ last.pre.output = n => lams[Top].output = x

\* C9: for n = Jinv(m) with m = J(x), applying the cancellation rule at n
\* reports a change, redirects every edge that pointed at n to x with the
\* same role and makes x the Output if n was; a prune directly afterwards
\* removes n, and removes m as well when m had no consumer other than n and
\* was not the Output.  The same holds with J and Jinv exchanged.
C9_Cancellation ==
    CancelThenPrune =>
        LET n == Prev.a
            x == CancelMatch.U["X"].ns[1]
            m == InnerOf(Prev)
        IN  /\ Prev.ret
            /\ last.err = ""
            /\ \A e \in EdgeSet(Prev.pre.graph) :
                  e[2] = n => <<e[1], x, e[3]>> \in EdgeSet(last.pre.graph)
            /\ \A e \in EdgeSet(last.pre.graph) : e[2] # n
            /\ Prev.pre.output = n => last.pre.output = x
            /\ n \notin NodeSet(lams[Top].graph)
            /\ ((\A e \in EdgeSet(Prev.pre.graph) : e[2] = m => e[1] = n)
                   /\ Prev.pre.output # m)
                  => m \notin NodeSet(lams[Top].graph)

\* a cancellation at a node that had a consumer, whose inner node had none
\* other and was pruned with it
C9_Witness ==
    /\ CancelThenPrune
    /\ \E e \in EdgeSet(Prev.pre.graph) : e[2] = Prev.a
    /\ \A e \in EdgeSet(Prev.pre.graph) : e[2] = InnerOf(Prev) => e[1] = Prev.a
    /\ Prev.pre.output # InnerOf(Prev)
    /\ InnerOf(Prev) \in NodeSet(last.pre.graph)
    /\ InnerOf(Prev) \notin NodeSet(lams[Top].graph)

\* the eval_constant pattern matched at node rec.a in the graph before the call
EvalMatch(rec) == match(WorldAt(rec), Top, rec.a, Pattern("eval_constant"))

\* what the evaluator returns for the application matched at rec.a
EvalResult(rec) ==
    Evaluate(value(World, EvalMatch(rec).U["V1"].ns[1]),
             [i \in 1..Len(EvalMatch(rec).U["V2"].ns) |->
                 value(World, EvalMatch(rec).U["V2"].ns[i])])

\* eval_constant was applied to an application of a primitive to literals
\* on which the evaluator fails
EvalFailure ==
    /\ last.op = "rule"
    /\ last.rule = "eval_constant"
    /\ EvalMatch(last).ok
    /\ value(World, EvalMatch(last).U["V1"].ns[1]).t = "sym"
    /\ value(World, EvalMatch(last).U["V1"].ns[1]) # SymV("partial")
    /\ ~EvalResult(last).ok

\* C12: when eval_constant matches an application and the evaluator fails
\* on it, the rule reports no change without raising and the Lambda, the
\* application node included, is as it was before the call.
C12_EvaluatorFailureIsNoMatch ==
    EvalFailure =>
        /\ last.err = ""
        /\ ~last.ret
        /\ lams[Top] = last.pre

\* the rules whose handler returns an Operation
OperationRules == {"add_tuples", "J_switch", "call_partial"}

\* a rule fired and installed the Operation its handler returned
InstalledInPlace ==
    /\ last.op = "rule"
    /\ last.rule \in OperationRules
    /\ last.ret
    /\ last.err = ""

\* C17: when a rule installs the Operation its handler returned on the
\* matched node, the edges that point at the node, the inputs and the Output
\* of the Lambda, and the outgoing edges of every other node that was in the
\* graph are as before.
C17_InPlaceRedefinition ==
    InstalledInPlace =>
        /\ InEdgeSet(lams[Top], last.a) = InEdgeSet(last.pre, last.a)
        /\ lams[Top].output = last.pre.output
        /\ lams[Top].inputs = last.pre.inputs
        /\ \A n \in NodeSet(last.pre.graph) \ {last.a} :
              OutEdgeSet(lams[Top].graph, n) = OutEdgeSet(last.pre.graph, n)

\* call_partial rewrote a node that has users, and its edges changed
C17_Witness ==
    /\ InstalledInPlace
    /\ last.rule = "call_partial"
    /\ InEdgeSet(last.pre, last.a) # {}
    /\ OutEdgeSet(lams[Top].graph, last.a) # OutEdgeSet(last.pre.graph, last.a)

\* the inline rule fired in the function for a callee that is another Lambda
InlinedOther ==
    /\ last.op = "rule"
    /\ last.rule = "inline"
    /\ last.ret
    /\ last.err = ""
    /\ last.callee # Top

\* C18: when inline fires in a caller other than the callee, the callee's
\* graph (node set and edge set), its inputs and its Output are the same
\* after the rule as before.
C18_InlineLeavesCallee ==
    InlinedOther =>
        /\ NodeSet(lams[last.callee].graph) = NodeSet(last.cpre.graph)
        /\ EdgeSet(lams[last.callee].graph) = EdgeSet(last.cpre.graph)
        /\ lams[last.callee].inputs = last.cpre.inputs
        /\ lams[last.callee].output = last.cpre.output

\* the callee has a graph of its own, and the caller's graph grew by the copy
C18_Witness ==
    /\ InlinedOther
    /\ EdgeSet(last.cpre.graph) # {}
    /\ NodeSet(last.pre.graph) # NodeSet(lams[Top].graph)
    /\ NodeSet(last.f2.graph) \subseteq NodeSet(lams[Top].graph)

\* eval_constant was applied to a node whose producer is an application of
\* the partial primitive to operands that all have a value
PartialRefused ==
    /\ last.op = "rule"
    /\ last.rule = "eval_constant"
    /\ EvalMatch(last).ok
    /\ value(World, EvalMatch(last).U["V1"].ns[1]) = SymV("partial")

C25_OutputInGraph ==
    (last.op \in {"acquire", "rule"} /\ last.err = "") =>
        has_node(lams[Top].graph, lams[Top].output)

\* the same after acquire alone
OutputInGraphAfterAcquire ==
    (last.op = "acquire" /\ last.err = "") =>
        has_node(lams[Top].graph, lams[Top].output)

\* every node of the Lambda lb has at most one outgoing edge per role
OneTargetPerRole(lb) ==
    \A e, f \in EdgeSet(lb.graph) :
        (e[1] = f[1] /\ e[3] = f[3]) => e[2] = f[2]

\* C26: after any sequence of rule applications (install, replace, inline)
\* and prune on a Lambda, every node has at most one outgoing edge for each
\* role FN, IN(i).
C26_OneTargetPerRole ==
    pc \in {"ready", "done"} => OneTargetPerRole(lams[Top])

\* the same as long as inline has not fired
OneTargetPerRoleWithoutInline ==
    (pc \in {"ready", "done"}
        /\ ~(last.op = "rule" /\ last.rule = "inline" /\ last.ret)
        /\ ~(last.prev # <<>> /\ Prev.op = "rule" /\ Prev.rule = "inline"
                /\ Prev.ret))
        => OneTargetPerRole(lams[Top])

----------------------------------------------------------------------------
(* Claims about the driver (SpecDriver)                                    *)

\* the driver is acquiring the Lambda or inside a round of its loop
DriverRunning == pc \in {"start", "simplify", "cse", "prune"}

\* the driver has ended, by returning or by an exception
DriverEnded == pc \in {"returned", "raised"}

\* C4: for every finite, acyclic Lambda built by acquire, the driver
\* aggressively_optimize reaches a round that reports no change and
\* returns: whenever it is no longer running, it has returned.
C4_FixpointTermination == DriverRunning \/ pc = "returned"

\* C7: the driver run on the Lambda whose Output is
\* multiply(1.0, index(mktuple(2, 3, 4), 1)) ends normally with Output the
\* literal node 3 and no application node reachable from it.
C7_ConstantFoldingExample ==
    (pool[1] = FoldingExample /\ DriverEnded) =>
        /\ pc = "returned"
        /\ has_value(World, lams[Top].output)
        /\ value(World, lams[Top].output).n = 3
        /\ out_edges(lams[Top].graph, lams[Top].output) = <<>>
        /\ NodeSet(lams[Top].graph) = {lams[Top].output}

\* C21: aggressively_optimize returns only after a round in which simplify
\* fired no rule and cse merged no node.
C21_StopsAtQuietRound ==
    pc = "returned" => (~last.ret /\ ~last.merged)

\* the part of the statement that is about simplify alone
ReturnsAfterQuietSimplify ==
    /\ pc = "returned" => ~last.ret
    /\ (pc = "prune" /\ last.ret) => steps < MaxRounds

----------------------------------------------------------------------------
(* Universe.export and GraphToANF.transform (graph.py 766-813)             *)

\* IRNode.to_ast and IRValue.to_ast
to_ast(W, n) ==
    Let(W.attr[n], LAMBDA a :
        IF a.cls = "IRValue"
        THEN IF a.values[1].t = "sym" THEN Builtin(a.values[1].s)
             ELSE ValueNode(a.values[1])
        ELSE a.tag)

\* variant that exports identity(arg) as an application like any other
export_value_apply(fn, args) == [ok |-> TRUE, val |-> ApplyNode(fn, args)]

\* the right-hand side exported for an ApplyOperation:
\* result [ok, val]; ok is FALSE where the unpacking raises ValueError
export_value(fn, args) ==
    IF fn = Builtin("identity")
    THEN IF Len(args) = 1 THEN [ok |-> TRUE, val |-> RefNode(args[1])]
         ELSE [ok |-> FALSE, val |-> IllegalNode]
    ELSE IF fn = Builtin("mktuple") THEN [ok |-> TRUE, val |-> TupleNode(args)]
    ELSE IF fn = Builtin("partial")
    THEN IF Len(args) >= 1
         THEN [ok |-> TRUE,
               val |-> ClosureNode(args[1], SubSeq(args, 2, Len(args)))]
         ELSE [ok |-> FALSE, val |-> IllegalNode]
    ELSE [ok |-> TRUE, val |-> ApplyNode(fn, args)]

\* for node in nodes: bindings.append((node.tag, val))
RECURSIVE transform_nodes(_, _, _, _, _)
transform_nodes(W, l, nodes, i, bindings) ==
    IF W.err # "" \/ i > Len(nodes) THEN [W |-> W, bindings |-> bindings]
    ELSE IF W.attr[nodes[i]].cls = "IRLambda"
    THEN transform_nodes(W, l, nodes, i + 1, bindings)
    ELSE Let(productor(W, l, nodes[i]), LAMBDA P :
             Let([j \in 1..Len(P.op.args) |-> to_ast(P.W, P.op.args[j])], LAMBDA args :
             Let(export_value(to_ast(P.W, P.op.fn), args), LAMBDA E :
             IF P.W.err # "" THEN [W |-> P.W, bindings |-> bindings]
             ELSE IF P.op.kind # "apply"
             THEN transform_nodes(P.W, l, nodes, i + 1, bindings)
             ELSE IF ~E.ok
             THEN [W |-> Raise(P.W, "ValueError"), bindings |-> bindings]
             ELSE transform_nodes(P.W, l, nodes, i + 1,
                                  Append(bindings,
                                         [lhs |-> W.attr[nodes[i]].tag,
                                          rhs |-> E.val])))))

\* variant that leaves the bindings in the order of the traversal
transform_unreversed(W, l) ==
    Let(topological_sort(W.lams[l].graph), LAMBDA T :
        Let(transform_nodes(W, l, T.order, 1, <<>>), LAMBDA R :
        Let(W.lams[l], LAMBDA lb :
        IF ~T.ok THEN [W |-> Raise(W, "NetworkXUnfeasible"), ast |-> <<>>]
        ELSE [W |-> R.W,
              ast |-> [ref |-> W.attr[l].tag,
                       args |-> [j \in 1..Len(lb.inputs) |->
                                    W.attr[lb.inputs[j]].tag],
                       bindings |-> R.bindings,
                       body |-> W.attr[lb.output].tag]])))

\* result [W, ast]: the exported function with its bindings, operands first
transform(W, l) ==
    Let(topological_sort(W.lams[l].graph), LAMBDA T :
        Let(transform_nodes(W, l, T.order, 1, <<>>), LAMBDA R :
        Let(W.lams[l], LAMBDA lb :
        IF ~T.ok THEN [W |-> Raise(W, "NetworkXUnfeasible"), ast |-> <<>>]
        ELSE [W |-> R.W,
              ast |-> [ref |-> W.attr[l].tag,
                       args |-> [j \in 1..Len(lb.inputs) |->
                                    W.attr[lb.inputs[j]].tag],
                       bindings |-> Reverse(R.bindings),
                       body |-> W.attr[lb.output].tag]])))

export(W, key) ==
    IF key \notin DOMAIN W.anf
    THEN [W |-> Raise(W, "KeyError"), ast |-> <<>>]
    ELSE transform(W, W.anf[key])

----------------------------------------------------------------------------
(* Specification SpecAcquire: ANF functions are acquired, acquired again   *)
(* and exported, in any order, with no rewriting in between.               *)

MaxABind == 2
MaxAcquireSteps == 3

\* the functions an application may call
AcquireFns ==
    {Builtin("add"), Global("g"), Builtin("identity"), Builtin("mktuple")}

\* what binding j may refer to: the parameter, a literal, earlier names
AcquireOperands(j) ==
    {Sym("x"), ValueNode(IntV(2))} \cup {Sym(BindName(i)) : i \in 1..(j - 1)}

\* the right-hand sides: application, reference, closure, tuple
AcquireRhs(j) ==
    {ApplyNode(h, <<o>>) : h \in AcquireFns, o \in AcquireOperands(j)}
      \cup {RefNode(o) : o \in AcquireOperands(j)}
      \cup {ClosureNode(Global("g"), <<o>>) : o \in AcquireOperands(j)}
      \cup {TupleNode(<<o, Sym("x")>>) : o \in AcquireOperands(j)}

\* binding j binds its name, or the pattern (name, name')
AcquireLhs(j) ==
    {LhsSym(BindName(j)),
     LhsTuple(<<BindName(j), BindName(j) \o "'">>)}

RECURSIVE AcquireBindings(_)
AcquireBindings(n) ==
    IF n = 0 THEN {<<>>}
    ELSE {Append(bs, Binding(k, v)) :
            bs \in AcquireBindings(n - 1),
            k \in AcquireLhs(n), v \in AcquireRhs(n)}

AcquirePrograms ==
    {LambdaNode("f", <<"x">>, bs, Sym(BindName(MaxABind))) :
        bs \in AcquireBindings(MaxABind)}

NoAcquireLast ==
    [op |-> "none", key |-> 0, l |-> 0, pre |-> <<>>, ast |-> <<>>,
     err |-> ""]

\* the pool holds the function, the callee g, and a second ANF object with
\* the same contents as the function
InitAcquire ==
    /\ attr = <<>>
    /\ lams = <<>>
    /\ anf_lbdas = <<>>
    /\ pool \in {<<p, CalleeG, p>> : p \in AcquirePrograms}
    /\ pc = "ready"
    /\ last = NoAcquireLast
    /\ steps = 0

\* universe.acquire(x) for any ANF object of the pool
AAcquire ==
    /\ pc = "ready"
    /\ steps < MaxAcquireSteps
    /\ \E key \in DOMAIN pool :
          \E R \in {acquire(World, key)} :
             /\ SetWorld(R.W)
             /\ pc' = IF R.W.err # "" THEN "error" ELSE "ready"
             /\ last' = [NoAcquireLast EXCEPT
                            !.op = "acquire", !.key = key, !.l = R.l,
                            !.pre = <<World>>, !.err = R.W.err]
    /\ steps' = steps + 1
    /\ UNCHANGED pool

\* universe.export(x) for any ANF object of the pool
AExport ==
    /\ pc = "ready"
    /\ steps < MaxAcquireSteps
    /\ \E key \in DOMAIN pool :
          \E R \in {export(World, key)} :
             /\ SetWorld(R.W)
             /\ pc' = IF R.W.err # "" THEN "error" ELSE "ready"
             /\ last' = [NoAcquireLast EXCEPT
                            !.op = "export", !.key = key, !.ast = R.ast,
                            !.pre = <<World>>, !.err = R.W.err]
    /\ steps' = steps + 1
    /\ UNCHANGED pool

NextAcquire ==
    \/ AAcquire
    \/ AExport

SpecAcquire == InitAcquire /\ [][NextAcquire]_vars

----------------------------------------------------------------------------
(* Claims about acquire and export (SpecAcquire)                           *)

\* export(x) has just returned for the ANF object x = pool[last.key]
Exported == last.op = "export" /\ last.err = ""

\* the renaming an export applies to an operand: a reference to a function
\* of the pool becomes the tag of that function's IRLambda
Renamed(o) ==
    IF o.k = "sym" /\ is_global(o) /\ ~is_builtin(o)
    THEN attr[anf_lbdas[Resolve(o.name)]].tag
    ELSE o

\* e has the shape and the operands of the right-hand side v
SameRhs(v, e) ==
    /\ e.k = v.k
    /\ Len(e.args) = Len(v.args)
    /\ \A i \in 1..Len(v.args) : e.args[i] = Renamed(v.args[i])
    /\ v.k \in {"apply", "closure"} => e.fn = Renamed(v.fn)

\* every binding of x with a symbol on the left has exactly one exported
\* binding for that symbol, of the same shape and with the same operands
SameBindings(x, E) ==
    \A b \in Range(x.bindings) :
        b.lhs.k = "sym" =>
            LET hits == {i \in 1..Len(E.bindings) :
                            E.bindings[i].lhs = Sym(b.lhs.names[1])}
            IN  /\ Cardinality(hits) = 1
                /\ \A i \in hits : SameRhs(b.rhs, E.bindings[i].rhs)

\* an operand bound by an exported binding is bound before it is used
OperandsFirst(E) ==
    \A i, j \in 1..Len(E.bindings) :
        E.bindings[j].lhs \in Range(E.bindings[i].rhs.args) => j < i

SugarFns == {Builtin("identity"), Builtin("mktuple"), Builtin("partial")}

\* every left-hand side is a symbol and no application calls one of the
\* builtins that export writes as a reference, a tuple or a closure
PlainBindings(x) ==
    \A b \in Range(x.bindings) :
        /\ b.lhs.k = "sym"
        /\ b.rhs.k = "apply" => b.rhs.fn \notin SugarFns

\* C6 as stated: export(acquire(x)) with no rewriting has as many bindings
\* as x, each of the same shape and with the same operands up to renaming.
C6_AsStated ==
    Exported =>
        /\ Len(last.ast.bindings) = Len(pool[last.key].bindings)
        /\ SameBindings(pool[last.key], last.ast)
        /\ OperandsFirst(last.ast)

\* C6: for an ANF function x whose bindings all have a symbol on the left
\* and whose applications do not call identity, mktuple or partial,
\* export(acquire(x)) with no rewriting has the parameters and the body of
\* x, as many bindings as x, one per bound symbol with the same shape and
\* the same operands up to the renaming of function references, and binds
\* every operand before its use.
C6_RoundTripShape ==
    (Exported /\ PlainBindings(pool[last.key])) =>
        /\ Len(last.ast.bindings) = Len(pool[last.key].bindings)
        /\ SameBindings(pool[last.key], last.ast)
        /\ OperandsFirst(last.ast)
        /\ last.ast.args = [i \in 1..Len(pool[last.key].args) |->
                               Sym(pool[last.key].args[i])]
        /\ last.ast.body = pool[last.key].body

\* an export of a function whose second binding is a closure over the
\* first, which is an application
C6_Witness ==
    /\ Exported
    /\ last.key = 1
    /\ PlainBindings(pool[last.key])
    /\ pool[last.key].bindings[1].rhs.k = "apply"
    /\ pool[last.key].bindings[2].rhs = ClosureNode(Global("g"), <<Sym("a")>>)
    /\ Len(last.ast.bindings) = 2

\* acquire(x) was called for an ANF object that had a Lambda already
AcquiredAgain ==
    /\ last.op = "acquire"
    /\ last.key \in DOMAIN last.pre[1].anf

\* C10: after an ANF object x has been acquired, every later acquire(x)
\* returns the same Lambda and changes neither the cache, nor a graph, nor
\* a node; two different ANF objects never have the same Lambda.
C10_AcquireMemoized ==
    /\ AcquiredAgain =>
          /\ last.err = ""
          /\ last.l = last.pre[1].anf[last.key]
          /\ World = last.pre[1]
    /\ \A k1, k2 \in DOMAIN anf_lbdas :
          k1 # k2 => anf_lbdas[k1] # anf_lbdas[k2]

\* a second acquire of the function after the ANF object with the same
\* contents was acquired too
C10_Witness ==
    /\ AcquiredAgain
    /\ last.key = 1
    /\ 3 \in DOMAIN anf_lbdas
    /\ anf_lbdas[1] # anf_lbdas[3]

\* the Lambda that was exported
ExportedLambda == lams[anf_lbdas[last.key]]

\* the nodes of the Lambda lb that are produced by identity(arg), a Copy
CopyNodesOf(lb) ==
    {e[1] : e \in {d \in EdgeSet(lb.graph) :
                      /\ d[3] = FN
                      /\ has_value(World, d[2])
                      /\ value(World, d[2]) = SymV("identity")}}

\* the bindings of the exported function that bind the name of node n
BindingsOf(n) ==
    {i \in 1..Len(last.ast.bindings) : last.ast.bindings[i].lhs = attr[n].tag}

\* the operand of the Copy node n
CopyOperand(lb, n) ==
    CHOOSE m \in NodeSet(lb.graph) : <<n, m, IN_(0)>> \in EdgeSet(lb.graph)

\* C14 as stated: export emits no binding for a node whose producer is an
\* application of identity.
C14_AsStated ==
    Exported => \A n \in CopyNodesOf(ExportedLambda) : BindingsOf(n) = {}

\* C14: for a node whose producer is identity(arg), export emits exactly one
\* binding, and it binds the node's name to the operand itself, a plain
\* reference and not an application of identity.
C14_AliasBinding ==
    Exported =>
        \A n \in CopyNodesOf(ExportedLambda) :
            /\ Cardinality(BindingsOf(n)) = 1
            /\ \A i \in BindingsOf(n) :
                   last.ast.bindings[i].rhs =
                       RefNode(to_ast(World, CopyOperand(ExportedLambda, n)))

\* an export of a = x; b = add(a, 2): the Copy node a is used by b
C14_Witness ==
    /\ Exported
    /\ last.key = 1
    /\ pool[1].bindings[1] = Binding(LhsSym("a"), RefNode(Sym("x")))
    /\ pool[1].bindings[2] =
           Binding(LhsSym("b"),
                   ApplyNode(Builtin("add"), <<Sym("a")>>))
    /\ CopyNodesOf(ExportedLambda) # {}
    /\ Len(last.ast.bindings) = 2

\* C15: in the bindings export produces, the binding of a node comes after
\* the binding of every node it has an edge to (its function and its
\* arguments), so a name is bound before it is used.
C15_ExportOrder ==
    Exported =>
        \A e \in EdgeSet(ExportedLambda.graph) :
            \A i \in BindingsOf(e[1]), j \in BindingsOf(e[2]) : j < i

\* an export with two bindings, the node of one an operand of the other's
C15_Witness ==
    /\ Exported
    /\ Len(last.ast.bindings) >= 2
    /\ \E e \in EdgeSet(ExportedLambda.graph) :
          /\ BindingsOf(e[1]) # {}
          /\ BindingsOf(e[2]) # {}
          /\ e[3] = IN_(0)

----------------------------------------------------------------------------
(* Specification SpecImport: two functions f and g that may refer to       *)
(* themselves and to each other through global symbols, in the function    *)
(* position of a binding or as the returned name, are acquired.            *)

MaxImportSteps == 2

\* h names no function of the pool
ImportFns == {Global("f"), Global("g"), Global("h"), Builtin("add")}

\* no binding, or a = h(x), or a = add(x) followed by an illegal clause
ImportBindings ==
    {<<>>} \cup {<<Binding(LhsSym("a"), ApplyNode(h, <<Sym("x")>>))>> :
                    h \in ImportFns}
           \cup {<<Binding(LhsSym("a"),
                           ApplyNode(Builtin("add"), <<Sym("x")>>)),
                   Binding(LhsSym("b"), IllegalNode)>>}

\* the returned name: the parameter, the bound name, or a global function
ImportBodies(bs) ==
    {Sym("x"), Global("f"), Global("g")}
        \cup (IF bs = <<>> THEN {} ELSE {Sym("a")})

ImportPrograms(ref) ==
    UNION {{LambdaNode(ref, <<"x">>, bs, body) : body \in ImportBodies(bs)} :
              bs \in ImportBindings}

NoImportLast == [op |-> "none", key |-> 0, l |-> 0, err |-> ""]

InitImport ==
    /\ attr = <<>>
    /\ lams = <<>>
    /\ anf_lbdas = <<>>
    /\ pool \in {<<p, q>> : p \in ImportPrograms("f"), q \in ImportPrograms("g")}
    /\ pc = "ready"
    /\ last = NoImportLast
    /\ steps = 0

\* universe.acquire(x) for a function of the pool
IAcquire ==
    /\ pc = "ready"
    /\ steps < MaxImportSteps
    /\ \E key \in DOMAIN pool :
       \E R \in {acquire(World, key)} :
          /\ SetWorld(R.W)
          /\ pc' = IF R.W.err # "" THEN "error" ELSE "ready"
          /\ last' = [op |-> "acquire", key |-> key, l |-> R.l,
                      err |-> R.W.err]
    /\ steps' = steps + 1
    /\ UNCHANGED pool

NextImport == IAcquire

SpecImport == InitImport /\ [][NextImport]_vars

\* the global function names an ANF function refers to
Refs(key) ==
    {pool[key].bindings[i].rhs.fn.name : i \in 1..Len(pool[key].bindings)}
        \cup (IF pool[key].body.ns = "global" THEN {pool[key].body.name}
              ELSE {})

\* pool[key] refers to itself, or to a function that refers back to it
RecursiveImport(key) ==
    \/ pool[key].ref \in Refs(key)
    \/ \E k2 \in DOMAIN pool :
          /\ pool[k2].ref \in Refs(key)
          /\ pool[key].ref \in Refs(k2)

\* the IRLambda objects built for an ANF function
LambdasOf(key) ==
    {n \in 1..Len(attr) :
        attr[n].cls = "IRLambda" /\ attr[n].values = <<LbdaV(key)>>}

\* C11: acquire of a function that refers to itself, or to a function that
\* refers back to it, through global symbols returns, and one Lambda has
\* been built for it and at most one for every function.
C11_RecursiveImportTerminates ==
    (last.op = "acquire" /\ RecursiveImport(last.key)) =>
        /\ last.err = ""
        /\ Cardinality(LambdasOf(last.key)) = 1
        /\ \A key \in DOMAIN pool : Cardinality(LambdasOf(key)) <= 1

\* acquire failed on a binding: an illegal clause or an import that the
\* resolver does not know
FailedInBindings ==
    /\ last.op = "acquire"
    /\ last.err \in {"Illegal ANF clause.", "Myia cannot resolve"}

\* C27: if acquire(x) fails while processing the bindings of x, the cache
\* of the Universe holds no entry for x afterwards.
C27_NoPartialLambdaCached ==
    FailedInBindings => last.key \notin DOMAIN anf_lbdas

\* a failed acquire leaves in the cache no function that it did not reach
FailedAcquireCachesOnlyStarted ==
    (last.op = "acquire" /\ last.err # "") =>
        \A k \in DOMAIN anf_lbdas : lams[anf_lbdas[k]].src = k

----------------------------------------------------------------------------
(* Specification SpecSync: arbitrary IRGraph.link calls put edges of any   *)
(* role on one node, and productor is asked for the node's Operation.      *)

MaxLinks == 3

\* the nodes the edges point at; the edges leave the nodes InstallTargets
SyncSources == {2, 5}

SyncRoles == {FN, CL, COPY, IN_(0), IN_(1), ELEM(0), GET(0)}

NoSyncLast ==
    [op |-> "none", node |-> 0, pre |-> EmptyGraph, res |-> NoOp, err |-> ""]

InitSync ==
    /\ attr = InstallAttr
    /\ lams = (1 :> IRLambda(<<2>>, 4, 1))
    /\ anf_lbdas = <<>>
    /\ pool = <<>>
    /\ pc = "ready"
    /\ last = NoSyncLast
    /\ steps = 0

\* graph.link(dest, source, role)
SLink ==
    /\ pc = "ready"
    /\ steps < MaxLinks
    /\ \E dest \in InstallTargets, source \in SyncSources, role \in SyncRoles :
          SetWorld(LinkIn(World, 1, dest, source, role))
    /\ last' = [NoSyncLast EXCEPT !.op = "link"]
    /\ steps' = steps + 1
    /\ UNCHANGED <<pool, pc>>

\* graph.productor(node), once after the links
SProductor ==
    /\ pc = "ready"
    /\ last.op = "link"
    /\ \E node \in InstallTargets :
       \E R \in {productor(World, 1, node)} :
          /\ SetWorld(R.W)
          /\ last' = [op |-> "productor", node |-> node,
                      pre |-> lams[1].graph, res |-> R.op, err |-> R.W.err]
    /\ pc' = "done"
    /\ UNCHANGED <<pool, steps>>

NextSync ==
    \/ SLink
    \/ SProductor

SpecSync == InitSync /\ [][NextSync]_vars

\* the role families found on the outgoing edges of the node before the call
RoleFamilies == {e[3][1] : e \in OutEdgeSet(last.pre, last.node)}

\* the edge roles one producer kind puts on a node
ProducerKinds ==
    {{"FN", "IN"}, {"CL", "IN"}, {"ELEM"}, {"GET"}, {"COPY"}}

\* the edges cannot all come from one producer kind
Corrupted == \A kind \in ProducerKinds : ~(RoleFamilies \subseteq kind)

\* C13: productor raises, and returns no Operation, whenever the outgoing
\* edges of the node come from two different producer kinds, IN edges next
\* to ELEM, GET or COPY edges included.
C13_CorruptedNodeDetection ==
    (last.op = "productor" /\ Corrupted) =>
        /\ last.err # ""
        /\ last.res = NoOp

----------------------------------------------------------------------------
(* Specification SpecMatch: PatternOpt.match of a pattern against a node   *)
(* of an acquired function (graph.py 318-355).  The patterns are those a   *)
(* caller of pattern_opt can write: fixed elements, a variadic variable     *)
(* with its Ellipsis, fixed elements after it, and sub-patterns.            *)

MaxFixed == 2
MaxMatchSteps == 1

P1 == PVar("P1", "any")
P2 == PVar("P2", "any")
M == PVar("M", "any")
T1 == PVar("T1", "any")
T2 == PVar("T2", "any")

Prefix(p) == SubSeq(<<P1, P2, X, Y>>, 1, p)
Suffix(t) == SubSeq(<<T1, T2, Z, V>>, 1, t)

\* p fixed elements, the variadic variable M, the Ellipsis, t fixed elements
FlatPatterns ==
    {Prefix(p) \o <<M, PDots>> \o Suffix(t) : p \in 0..MaxFixed,
                                              t \in 0..MaxFixed}

\* add of two tuples whose elements are captured by the same variable
TwiceVariadic ==
    <<PSym("add"), PTuple(<<PSym("mktuple"), X, PDots>>),
      PTuple(<<PSym("mktuple"), X, PDots>>)>>

\* a call whose two arguments are the same variable
TwicePlain == <<Y, X, X>>

MatchPatterns == FlatPatterns \cup {TwiceVariadic, TwicePlain}

\* a = x(args): a call of n - 1 arguments, none included
ApplyPrograms ==
    {LambdaNode("f", <<"x", "y">>,
                <<Binding(LhsSym("a"), ApplyNode(Sym("x"), args))>>,
                Sym("a")) :
        args \in SeqsUpTo({Sym("x"), Sym("y")}, MaxArgs)}

MatchPrograms == TuplePrograms \cup ApplyPrograms

NoMatchLast ==
    [op |-> "none", node |-> 0, pattern |-> <<>>, sexp |-> <<>>,
     ok |-> FALSE, U |-> <<>>, err |-> ""]

InitMatch ==
    /\ attr = <<>>
    /\ lams = <<>>
    /\ anf_lbdas = <<>>
    /\ pool \in {<<p, CalleeG>> : p \in MatchPrograms}
    /\ pc = "start"
    /\ last = NoMatchLast
    /\ steps = 0

MAcquire ==
    /\ pc = "start"
    /\ \E R \in {acquire(World, 1)} :
          /\ SetWorld(R.W)
          /\ pc' = IF R.W.err # "" THEN "error" ELSE "ready"
          /\ last' = [NoMatchLast EXCEPT !.op = "acquire", !.err = R.W.err]
    /\ UNCHANGED <<pool, steps>>

\* (prod.fn,) + prod.args of the node's producer
SexpOf(W, l, node) ==
    Let(productor(W, l, node), LAMBDA P :
       IF P.W.err # "" \/ P.op.kind # "apply" THEN <<>>
       ELSE <<P.op.fn>> \o P.op.args)

\* PatternOpt(pattern, handler).match(lbda, node)
MMatch ==
    /\ pc = "ready"
    /\ steps < MaxMatchSteps
    /\ \E node \in Computed(lams[Top].graph), pattern \in MatchPatterns :
          \E R \in {match(World, Top, node, pattern)} :
             /\ SetWorld(R.W)
             /\ pc' = IF R.W.err # "" THEN "error" ELSE "ready"
             /\ last' = [op |-> "match", node |-> node, pattern |-> pattern,
                         sexp |-> SexpOf(World, Top, node),
                         ok |-> R.ok, U |-> R.U, err |-> R.W.err]
    /\ steps' = steps + 1
    /\ UNCHANGED pool

NextMatch == MAcquire \/ MMatch

SpecMatch == InitMatch /\ [][NextMatch]_vars

\* a flat pattern matched
FlatMatched ==
    /\ last.op = "match"
    /\ last.ok
    /\ last.err = ""
    /\ last.pattern \in FlatPatterns

\* C19: a pattern of p fixed elements, the variadic variable and t fixed
\* elements matches a sequence of n elements only if n >= p + t; the first
\* p and the last t elements are then bound one to one to the fixed
\* elements, and the variadic variable to the n - p - t elements between.
C19_WildcardMatch ==
    FlatMatched =>
        LET n == Len(last.sexp)
            p == DotsIndex(last.pattern) - 2
            t == Len(last.pattern) - DotsIndex(last.pattern)
        IN  /\ n >= p + t
            /\ \A i \in 1..p :
                  last.U[last.pattern[i].name] = ENode(last.sexp[i])
            /\ \A j \in 1..t :
                  last.U[last.pattern[p + 2 + j].name]
                      = ENode(last.sexp[n - t + j])
            /\ last.U["M"] = EList(SubSeq(last.sexp, p + 1, n - t))

\* the same statement for the sequences that are long enough
WildcardMatchLongEnough ==
    (FlatMatched /\ Len(last.sexp) >= Len(last.pattern) - 2) =>
        LET n == Len(last.sexp)
            p == DotsIndex(last.pattern) - 2
            t == Len(last.pattern) - DotsIndex(last.pattern)
        IN  /\ \A i \in 1..p :
                  last.U[last.pattern[i].name] = ENode(last.sexp[i])
            /\ \A j \in 1..t :
                  last.U[last.pattern[p + 2 + j].name]
                      = ENode(last.sexp[n - t + j])
            /\ last.U["M"] = EList(SubSeq(last.sexp, p + 1, n - t))

\* the elements captured at the two mktuple nodes of c = add(a, b)
TupleArgs(k) == SubSeq(SexpOf(World, Top, last.sexp[k]), 2,
                       Len(SexpOf(World, Top, last.sexp[k])))

\* C20: a pattern that names one variadic variable twice matches only when
\* the two captured lists are equal; a non-empty first list does not match
\* an empty second one.
C20_UnificationConsistency ==
    (last.op = "match" /\ last.ok /\ last.err = ""
        /\ last.pattern = TwiceVariadic) =>
        TupleArgs(2) = TupleArgs(3)

\* the same for a variable that is not variadic
PlainVariableTwice ==
    (last.op = "match" /\ last.ok /\ last.err = ""
        /\ last.pattern = TwicePlain) =>
        /\ last.sexp[2] = last.sexp[3]
        /\ last.U["X"] = ENode(last.sexp[2])

----------------------------------------------------------------------------
(* Specification SpecCse: IRLambda.cse followed by IRLambda.prune (graph.py *)
(* 541-557, 510-516) on a Lambda acquired from an ANF function of          *)
(* MaxCBind applications of add and a tuple that uses every one of them.   *)

MaxCBind == 3

\* what binding j may refer to: the parameters, a literal, earlier names
CseOperands(j) ==
    {Sym("x"), Sym("y"), ValueNode(IntV(2))}
        \cup {Sym(BindName(i)) : i \in 1..(j - 1)}

RECURSIVE CseBindings(_)
CseBindings(n) ==
    IF n = 0 THEN {<<>>}
    ELSE {Append(bs, Binding(LhsSym(BindName(n)),
                             ApplyNode(Builtin("add"), <<o1, o2>>))) :
            bs \in CseBindings(n - 1),
            o1 \in CseOperands(n), o2 \in CseOperands(n)}

CsePrograms ==
    {LambdaNode("f", <<"x", "y">>,
                Append(bs, Binding(LhsSym("out"),
                                   TupleNode([i \in 1..MaxCBind |->
                                                 Sym(BindName(i))]))),
                Sym("out")) :
        bs \in CseBindings(MaxCBind)}

NoCseLast ==
    [op |-> "none", pre |-> <<>>, mid |-> <<>>, node_to_hash |-> <<>>,
     err |-> ""]

InitCse ==
    /\ attr = <<>>
    /\ lams = <<>>
    /\ anf_lbdas = <<>>
    /\ pool \in {<<p>> : p \in CsePrograms}
    /\ pc = "start"
    /\ last = NoCseLast
    /\ steps = 0

CAcquire ==
    /\ pc = "start"
    /\ \E R \in {acquire(World, 1)} :
          /\ SetWorld(R.W)
          /\ pc' = IF R.W.err # "" THEN "error" ELSE "ready"
          /\ last' = [NoCseLast EXCEPT !.op = "acquire", !.err = R.W.err]
    /\ UNCHANGED <<pool, steps>>

\* node_to_hash as the first loop of cse leaves it
NodeToHash(W, l) ==
    Let(topological_sort(W.lams[l].graph), LAMBDA T :
        IF ~T.ok THEN <<>>
        ELSE cse_hashes(W, l, Reverse(T.order), 1, Len(T.order),
                        [node_to_hash |-> <<>>,
                         buckets |-> <<>>]).node_to_hash)

\* lbda.cse(); last.pre is the Lambda before the call
CCse ==
    /\ pc = "ready"
    /\ \E W \in {cse(World, Top)} :
          /\ SetWorld(W)
          /\ pc' = IF W.err # "" THEN "error" ELSE "merged"
          /\ last' = [op |-> "cse", pre |-> lams[Top], mid |-> W.lams[Top],
                      node_to_hash |-> NodeToHash(World, Top),
                      err |-> W.err]
    /\ UNCHANGED <<pool, steps>>

\* lbda.prune() after cse; last.mid is the Lambda between the two calls
CPrune ==
    /\ pc = "merged"
    /\ \E R \in {prune(World, Top)} :
          /\ SetWorld(R.W)
          /\ pc' = IF R.W.err # "" THEN "error" ELSE "pruned"
          /\ last' = [last EXCEPT !.op = "prune", !.err = R.W.err]
    /\ UNCHANGED <<pool, steps>>

NextCse ==
    \/ CAcquire
    \/ CCse
    \/ CPrune

SpecCse == InitCse /\ [][NextCse]_vars

----------------------------------------------------------------------------
(* Claims about cse (SpecCse)                                              *)

\* the nodes of the Lambda lb that are computed from operands
Computations(lb) ==
    {n \in NodeSet(lb.graph) :
        attr[n].cls = "IRComputation" /\ ~_is_constant(World, n)}

\* the role-to-operand-hash map of node n before cse
RoleHashes(n) ==
    {<<e[3], last.node_to_hash[e[2]]>> : e \in OutEdgeSet(last.pre.graph, n)}

\* C22: two Computation nodes get equal hashes in cse only if they have the
\* same role-to-operand-hash map; add(a, b) and add(b, a), and add(a, a) and
\* add(b, b), get different hashes.
C22_HashDiscriminatesRoles ==
    last.op = "cse" =>
        \A n1, n2 \in Computations(last.pre) :
            last.node_to_hash[n1] = last.node_to_hash[n2]
                => RoleHashes(n1) = RoleHashes(n2)

\* the converse: nodes with the same role-to-operand-hash map hash alike
SameOperandsSameHash ==
    last.op = "cse" =>
        \A n1, n2 \in Computations(last.pre) :
            RoleHashes(n1) = RoleHashes(n2)
                => last.node_to_hash[n1] = last.node_to_hash[n2]

\* the edges of the Lambda lb that point at one of its inputs
InputReads(lb) ==
    {e \in EdgeSet(lb.graph) : InSeq(lb.inputs, e[2])}

\* C24: cse never redirects an edge that points at one Input to another
\* Input: after cse every consumer reads the same Input at each role as
\* before.
C24_CseKeepsInputsApart ==
    last.op = "cse" =>
        \A e \in InputReads(last.pre) :
            \A f \in EdgeSet(last.mid.graph) :
                (f[1] = e[1] /\ f[3] = e[3]) => f[2] = e[2]

\* the function position of the application that computes node n
FnOf(n) == SexpOf(World, Top, n)[1]

\* node n is an application of the identity primitive
IsIdentityCall(n) ==
    /\ SexpOf(World, Top, n) # <<>>
    /\ has_value(World, FnOf(n))
    /\ value(World, FnOf(n)) = SymV("identity")

\* node n is a call with a Lambda in function position
IsLambdaCall(n) ==
    /\ SexpOf(World, Top, n) # <<>>
    /\ attr[FnOf(n)].cls = "IRLambda"

\* C29: whenever aggressively_optimize returns, a further simplify pass on
\* the resulting graph reports no change, and no remaining node is an
\* application of the identity primitive or a call of a Lambda.
C29_ResultIsNormalForm ==
    pc = "returned" =>
        /\ simplify(World, Top).W.err = ""
        /\ ~simplify(World, Top).ret
        /\ \A n \in Computed(lams[Top].graph) :
              ~IsIdentityCall(n) /\ ~IsLambdaCall(n)

\* the driver returned after more than one round and left computations
C29_Witness ==
    /\ pc = "returned"
    /\ steps >= 2
    /\ Computed(lams[Top].graph) # {}
    /\ pool[1] # FoldingExample

\* the role-to-operand map of node n in the Lambda lb
RoleMap(lb, n) == {<<e[3], e[2]>> : e \in OutEdgeSet(lb.graph, n)}

\* the literal nodes of the Lambda lb
Literals(lb) ==
    {n \in NodeSet(lb.graph) : attr[n].cls # "IRLambda" /\ has_value(World, n)}

\* C30: after cse followed by prune, no two distinct remaining Computation
\* nodes have the same role-to-operand map, and no two distinct remaining
\* literal nodes wrap the same value of the same type.
C30_CseComplete ==
    (pc = "pruned" /\ last.err = "") =>
        /\ \A n1, n2 \in Computations(lams[Top]) :
              RoleMap(lams[Top], n1) = RoleMap(lams[Top], n2) => n1 = n2
        /\ \A n1, n2 \in Literals(lams[Top]) :
              value(World, n1) = value(World, n2) => n1 = n2

\* the part of the statement that is about literal nodes
CseCompleteOnLiterals ==
    (pc = "pruned" /\ last.err = "") =>
        \A n1, n2 \in Literals(lams[Top]) :
            value(World, n1) = value(World, n2) => n1 = n2

====
